---- MODULE Spec2Model ----
(***************************************************************************)
(* A model of the TermBackup snapshot engine: the envelope codec           *)
(* (crypto.py), the delta engine (delta.py), the manifest ledger           *)
(* (manifest.py), the container codec (snapshot.py) and the extraction     *)
(* path (restore.py, utils.py).                                            *)
(*                                                                         *)
(* Byte strings are sequences of 0..255 with the widths of the source.     *)
(* The primitives of the cryptography and argon2 libraries are modelled as *)
(* ideal primitives: the AEAD tag and the Ed25519 signature are checksums  *)
(* of key and message that detect every change of a single byte, every     *)
(* change of length and every change of key within the model's key sets.   *)
(***************************************************************************)
EXTENDS Integers, Sequences, FiniteSets, TLC

VARIABLES cry,      \* the envelope codec's scenario (encrypt/decrypt, sign/verify)
          dl,       \* the delta engine's scenario
          heap,     \* Python list objects of the manifest scenario: ref -> sequence
          man,      \* the manifest scenario
          fs,       \* the file system of the snapshot scenario: path -> node
          snap      \* the snapshot scenario: profile, keys, calls made and their outcomes

vars == <<cry, dl, heap, man, fs, snap>>

\* ------------------------------------------------------------------ bounds

\* Longest plaintext / message of the envelope codec's scenario.
MaxLen == 2

\* ------------------------------------------------------------------ bytes

\* s[:n] and s[n:] of a Python bytes object
Take(s, n) == SubSeq(s, 1, IF n < Len(s) THEN n ELSE Len(s))
Drop(s, n) == IF n >= Len(s) THEN <<>> ELSE SubSeq(s, n + 1, Len(s))

RECURSIVE SumSeq(_)
SumSeq(s) == IF s = <<>> THEN 0 ELSE s[1] + SumSeq(Tail(s))

\* n cells, cell j the sum (mod 256) of the bytes of s at positions j, j+n, ...
RECURSIVE FoldCell(_, _, _)
FoldCell(s, n, i) == IF i > Len(s) THEN 0 ELSE s[i] + FoldCell(s, n, i + n)
Fold(s, n) == [j \in 1..n |-> FoldCell(s, n, j) % 256]

\* b with bit k flipped
FlipBit(b, k) == IF (b \div (2 ^ k)) % 2 = 1 THEN b - 2 ^ k ELSE b + 2 ^ k

\* s with bit k of its i-th byte flipped
FlipAt(s, i, k) == [s EXCEPT ![i] = FlipBit(s[i], k)]

\* The outcome of a call: a returned value or a raised exception.
Ok(v) == [err |-> "none", msg |-> "", val |-> v]
Raise(e, m) == [err |-> e, msg |-> m, val |-> <<>>]

\* ------------------------------------------------------------------ crypto.py

SALT_LEN == 32
NONCE_LEN == 12
KEY_LEN == 32
\* the GCM tag: "NONCE_LEN + 16"
TAG_LEN == 16

\* argon2.low_level.hash_secret_raw: an ideal KDF, its output determined by, and
\* determining, the (sums of the) secret and the salt.
Argon2id(secret, salt, hash_len) ==
    [j \in 1..hash_len |->
        IF j = 1 THEN SumSeq(secret) % 256
        ELSE IF j = 2 THEN SumSeq(salt) % 256 ELSE j]

\* hash_secret_raw raises for a salt of fewer than 8 bytes
ARGON2_MIN_SALT_LEN == 8

derive_key_IgnoresPassword(password, salt) == Ok(Argon2id(<<>>, salt, KEY_LEN))

\* derive_key(password, salt): the key, or KeyDerivationError when the library
\* raises
derive_key(password, salt) ==
    IF Len(salt) < ARGON2_MIN_SALT_LEN
    THEN Raise("KeyDerivationError", "Failed to derive key")
    ELSE Ok(Argon2id(password, salt, KEY_LEN))

\* derive_recovery_key(phrase, salt)
derive_recovery_key(phrase, salt) == derive_key(phrase, salt)

\* AES-GCM keystream under (key, nonce): its byte i is (GcmStream + i) % 256
GcmStream(key, nonce) == (Fold(key, 1)[1] + Fold(nonce, 1)[1]) % 256

GcmTag(key, nonce, body) ==
    Fold(key, 2) \o Fold(nonce, 1) \o <<Len(body) % 256>> \o Fold(body, TAG_LEN - 4)

\* AESGCM(key).encrypt(nonce, data, None): ciphertext followed by the tag
AESGCM_encrypt(key, nonce, data) ==
    LET stream == GcmStream(key, nonce)
        body == [i \in 1..Len(data) |-> (data[i] + stream + i) % 256]
    IN  body \o GcmTag(key, nonce, body)

\* AESGCM(key).decrypt(nonce, data, None): the plaintext, or InvalidTag
AESGCM_decrypt(key, nonce, data) ==
    IF Len(data) < TAG_LEN THEN Raise("InvalidTag", "")
    ELSE LET body == Take(data, Len(data) - TAG_LEN)
             tag  == Drop(data, Len(data) - TAG_LEN)
         IN  IF tag # GcmTag(key, nonce, body) THEN Raise("InvalidTag", "")
             ELSE LET stream == GcmStream(key, nonce)
                  IN  Ok([i \in 1..Len(body) |-> (body[i] + 512 - stream - i) % 256])

\* encrypt(data, key), with the nonce generate_nonce() returned
encrypt(data, key, nonce) ==
    IF Len(key) # KEY_LEN THEN Raise("EncryptionError", "Invalid key length for AES-256-GCM.")
    ELSE Ok(nonce \o AESGCM_encrypt(key, nonce, data))

decrypt_OffByOne(payload, key) ==
    IF Len(payload) <= NONCE_LEN + TAG_LEN THEN Raise("DecryptionError", "Payload too short.")
    ELSE IF Len(key) # KEY_LEN THEN Raise("DecryptionError", "Invalid key length.")
    ELSE LET r == AESGCM_decrypt(key, Take(payload, NONCE_LEN), Drop(payload, NONCE_LEN))
         IN  IF r.err # "none"
             THEN Raise("DecryptionError", "Decryption failed. Invalid key or corrupted data.")
             ELSE r

decrypt(payload, key) ==
    IF Len(payload) < NONCE_LEN + TAG_LEN THEN Raise("DecryptionError", "Payload too short.")
    ELSE IF Len(key) # KEY_LEN THEN Raise("DecryptionError", "Invalid key length.")
    ELSE LET r == AESGCM_decrypt(key, Take(payload, NONCE_LEN), Drop(payload, NONCE_LEN))
         IN  IF r.err # "none"
             THEN Raise("DecryptionError", "Decryption failed. Invalid key or corrupted data.")
             ELSE r

\* Ed25519 (cryptography.hazmat): the public key of a private key, and the
\* 64-byte signature a public key accepts for a message.
ED25519_SIG_LEN == 64
Ed25519Public(priv) == [j \in 1..Len(priv) |-> (priv[j] + 1) % 256]
Ed25519Signature(pub, data) ==
    Fold(pub, 2) \o <<Len(data) % 256>> \o Fold(data, ED25519_SIG_LEN - 3)

\* sign(data, private_key_raw)
sign(data, private_key_raw) ==
    IF Len(private_key_raw) # KEY_LEN THEN Raise("SignatureError", "Signing failed")
    ELSE Ok(Ed25519Signature(Ed25519Public(private_key_raw), data))

verify_KeyOnly(data, signature, public_key_raw) ==
    /\ Len(public_key_raw) = KEY_LEN
    /\ Len(signature) = ED25519_SIG_LEN
    /\ Take(signature, 2) = Fold(public_key_raw, 2)

\* verify(data, signature, public_key_raw): never raises
verify(data, signature, public_key_raw) ==
    /\ Len(public_key_raw) = KEY_LEN
    /\ Len(signature) = ED25519_SIG_LEN
    /\ signature = Ed25519Signature(public_key_raw, data)

\* generate_signing_keypair(), with the private key's 32 random bytes
generate_signing_keypair(seed) == <<seed, Ed25519Public(seed)>>

\* ------------------------------------------------ the envelope codec's scenario

\* All sequences over S of length at most n
RECURSIVE SeqsUpTo(_, _)
SeqsUpTo(S, n) ==
    IF n = 0 THEN {<<>>}
    ELSE LET shorter == SeqsUpTo(S, n - 1)
         IN  shorter \cup {Append(t, x) : t \in {u \in shorter : Len(u) = n - 1}, x \in S}

PlainBytes == {0, 65, 255}
Plaintexts == SeqsUpTo(PlainBytes, MaxLen)
Passwords == {<<112, 97>>, <<112, 98>>}
Salts == {[j \in 1..SALT_LEN |-> 7], [j \in 1..SALT_LEN |-> 9]}
Nonces == {[j \in 1..NONCE_LEN |-> 1], [j \in 1..NONCE_LEN |-> 254]}
\* os.urandom(32): data-encryption keys and signing keys
Deks == {[j \in 1..KEY_LEN |-> 200], [j \in 1..KEY_LEN |-> 201]}
SigningKeys == {[j \in 1..KEY_LEN |-> 100], [j \in 1..KEY_LEN |-> 103]}
DerivedKeys == {derive_key(pw, s).val : pw \in Passwords, s \in Salts}
\* a key of the wrong length: the first 16 bytes of a key
ShortKeys == {Take([j \in 1..KEY_LEN |-> 200], 16)}
TestKeys == DerivedKeys \cup Deks \cup ShortKeys

CryInit ==
    cry = [pc |-> "start", data |-> <<>>, key |-> <<>>, enc |-> Ok(<<>>),
           key2 |-> <<>>, out |-> Ok(<<>>),
           msg0 |-> <<>>, priv |-> <<>>, signed |-> Ok(<<>>),
           msg |-> <<>>, sig |-> <<>>, flipped |-> "no", pub |-> <<>>,
           verdict |-> FALSE]

\* encrypt(data, key)
CryEncrypt ==
    /\ cry.pc = "start"
    /\ \E data \in Plaintexts, key \in TestKeys, nonce \in Nonces :
          cry' = [cry EXCEPT !.pc = "encrypted", !.data = data, !.key = key,
                             !.enc = encrypt(data, key, nonce)]
    /\ UNCHANGED <<dl, heap, man, fs, snap>>

\* decrypt(payload, key2) of the payload encrypt returned
CryDecrypt ==
    /\ cry.pc = "encrypted"
    /\ cry.enc.err = "none"
    /\ \E key2 \in TestKeys :
          cry' = [cry EXCEPT !.pc = "decrypted", !.key2 = key2,
                             !.out = decrypt(cry.enc.val, key2)]
    /\ UNCHANGED <<dl, heap, man, fs, snap>>

\* sign(msg, priv)
CrySign ==
    /\ cry.pc = "start"
    /\ \E m \in Plaintexts, priv \in SigningKeys \cup ShortKeys :
          LET r == sign(m, priv)
          IN  cry' = [cry EXCEPT !.pc = IF r.err = "none" THEN "signed" ELSE "signfailed",
                                 !.msg0 = m, !.priv = priv, !.signed = r,
                                 !.msg = m, !.sig = r.val]
    /\ UNCHANGED <<dl, heap, man, fs, snap>>

\* one bit of the message is flipped
CryFlipMessage ==
    /\ cry.pc = "signed"
    /\ cry.flipped = "no"
    /\ \E i \in 1..Len(cry.msg), k \in 0..7 :
          cry' = [cry EXCEPT !.msg = FlipAt(cry.msg, i, k), !.flipped = "msg"]
    /\ UNCHANGED <<dl, heap, man, fs, snap>>

\* one bit of the signature is flipped
CryFlipSignature ==
    /\ cry.pc = "signed"
    /\ cry.flipped = "no"
    /\ \E i \in 1..Len(cry.sig), k \in 0..7 :
          cry' = [cry EXCEPT !.sig = FlipAt(cry.sig, i, k), !.flipped = "sig"]
    /\ UNCHANGED <<dl, heap, man, fs, snap>>

\* verify(msg, sig, pub)
CryVerify ==
    /\ cry.pc = "signed"
    /\ \E seed \in SigningKeys :
          LET pub == generate_signing_keypair(seed)[2]
          IN  cry' = [cry EXCEPT !.pc = "verified", !.pub = pub,
                                 !.verdict = verify(cry.msg, cry.sig, pub)]
    /\ UNCHANGED <<dl, heap, man, fs, snap>>

CryNext ==
    \/ CryEncrypt
    \/ CryDecrypt
    \/ CrySign
    \/ CryFlipMessage
    \/ CryFlipSignature
    \/ CryVerify

DlIdle == dl = [pc |-> "off"]
ManIdle == heap = <<>> /\ man = [pc |-> "off"]
CryIdle == cry = [pc |-> "off"]
SnapIdle == fs = <<>> /\ snap = [pc |-> "off"]

InitCrypto == CryInit /\ DlIdle /\ ManIdle /\ SnapIdle

SpecCrypto == InitCrypto /\ [][CryNext]_vars

\* C5: for every plaintext p and every 32-byte key k, decrypt(encrypt(p, k), k)
\* returns exactly p.
C5_RoundTrip ==
    (cry.pc = "decrypted" /\ cry.key2 = cry.key) => cry.out = Ok(cry.data)

\* a longest plaintext was encrypted and decrypted under the same 32-byte key
C5_Witness ==
    /\ cry.pc = "decrypted"
    /\ cry.key2 = cry.key
    /\ Len(cry.key) = KEY_LEN
    /\ Len(cry.data) = MaxLen
    /\ cry.out = Ok(cry.data)

\* C6: with two keys derived from two different passwords and the same salt,
\* decrypting under the second a payload encrypted under the first raises
\* DecryptionError and returns no plaintext.
C6_WrongPassword ==
    \A pwA \in Passwords, pwB \in Passwords, s \in Salts :
        ( /\ cry.pc = "decrypted"
          /\ pwA # pwB
          /\ cry.key = derive_key(pwA, s).val
          /\ cry.key2 = derive_key(pwB, s).val )
        => (cry.out.err = "DecryptionError" /\ cry.out.val = <<>>)

\* a payload of a plaintext that is not empty was decrypted under the key of
\* the other password and the same salt
C6_Witness ==
    \E pwA \in Passwords, pwB \in Passwords, s \in Salts :
        /\ cry.pc = "decrypted"
        /\ pwA # pwB
        /\ cry.key = derive_key(pwA, s).val
        /\ cry.key2 = derive_key(pwB, s).val
        /\ cry.data # <<>>
        /\ cry.out.err = "DecryptionError"

\* C7: for every message m and keypair (priv, pub) of generate_signing_keypair,
\* verify(m, sign(m, priv), pub) is true, and verify is false once one bit of m
\* or of the signature is flipped.
C7_SignVerify ==
    (cry.pc = "verified" /\ cry.pub = generate_signing_keypair(cry.priv)[2])
    => (cry.verdict <=> cry.flipped = "no")

\* a signature with one bit flipped was verified under the signer's public key
C7_Witness ==
    /\ cry.pc = "verified"
    /\ cry.pub = generate_signing_keypair(cry.priv)[2]
    /\ cry.flipped = "sig"
    /\ cry.msg # <<>>
    /\ ~cry.verdict

\* ------------------------------------------------------ generate_recovery_phrase

\* The mnemonic wordlist has 2048 words of lower-case letters; word k is
\* modelled by the three letters of k written to the base 26.
WORDLIST_LEN == 2048
Word(k) == <<97 + (k \div 676), 97 + ((k \div 26) % 26), 97 + (k % 26)>>
Wordlist == {Word(k) : k \in 0..(WORDLIST_LEN - 1)}
SPACE == 32

\* bit k (from 0, most significant first) of a sequence of bytes
BitAt(bytes, k) == (bytes[(k \div 8) + 1] \div (2 ^ (7 - (k % 8)))) % 2

\* the value of the 11 bits from bit k on
RECURSIVE Bits11(_, _, _)
Bits11(bytes, k, n) ==
    IF n = 0 THEN 0 ELSE BitAt(bytes, k + n - 1) + 2 * Bits11(bytes, k, n - 1)

\* " ".join(words)
RECURSIVE JoinSpace(_)
JoinSpace(words) ==
    IF words = <<>> THEN <<>>
    ELSE IF Len(words) = 1 THEN words[1]
    ELSE words[1] \o <<SPACE>> \o JoinSpace(Tail(words))

\* Mnemonic.to_mnemonic(entropy): the entropy's bits, then the first
\* len(entropy) / 4 bits of its hash, cut into groups of 11 bits that each
\* select a word. The hash is an ideal one.
MnemonicWords(bits, count) == [i \in 1..count |-> Word(Bits11(bits, 11 * (i - 1), 11))]
to_mnemonic(entropy) ==
    JoinSpace(MnemonicWords(entropy \o Fold(entropy, 4), (Len(entropy) * 8 + Len(entropy) \div 4) \div 11))

\* Mnemonic.generate(strength) with the bytes os.urandom returns
Mnemonic_generate(strength, urandom) == to_mnemonic(Take(urandom, strength \div 8))

generate_recovery_phrase_Strength128(urandom) == Mnemonic_generate(128, urandom)

\* generate_recovery_phrase(), urandom being the bytes the system supplies
generate_recovery_phrase(urandom) == Mnemonic_generate(256, urandom)

\* phrase.split(" "): the pieces between the spaces
SpacesOf(text) == {i \in DOMAIN text : text[i] = SPACE}
NthSpace(text, n) ==
    IF n = 0 THEN 0
    ELSE IF n > Cardinality(SpacesOf(text)) THEN Len(text) + 1
    ELSE CHOOSE i \in SpacesOf(text) : Cardinality({j \in SpacesOf(text) : j < i}) = n - 1
SplitSpace(text) ==
    [n \in 1..(Cardinality(SpacesOf(text)) + 1) |->
        SubSeq(text, NthSpace(text, n - 1) + 1, NthSpace(text, n) - 1)]

\* os.urandom(32): byte j is (a * j + b) % 256
EntropySteps == 0..9
Entropies == {[j \in 1..KEY_LEN |-> (a * j + b) % 256] : a \in EntropySteps, b \in EntropySteps}

PhraseInit == \E e \in Entropies : cry = [pc |-> "entropy", urandom |-> e, phrase |-> <<>>]

\* generate_recovery_phrase()
PhraseGenerate ==
    /\ cry.pc = "entropy"
    /\ cry' = [cry EXCEPT !.pc = "phrase", !.phrase = generate_recovery_phrase(cry.urandom)]
    /\ UNCHANGED <<dl, heap, man, fs, snap>>

InitPhrase == PhraseInit /\ DlIdle /\ ManIdle /\ SnapIdle

SpecPhrase == InitPhrase /\ [][PhraseGenerate]_vars

\* C20: generate_recovery_phrase() returns exactly 24 words separated by single
\* spaces, each a word of the wordlist.
C20_TwentyFourWords ==
    cry.pc = "phrase" =>
        /\ Len(SplitSpace(cry.phrase)) = 24
        /\ \A n \in DOMAIN SplitSpace(cry.phrase) : SplitSpace(cry.phrase)[n] \in Wordlist

\* a phrase was generated whose words are not all the same
C20_Witness ==
    /\ cry.pc = "phrase"
    /\ \E n \in DOMAIN SplitSpace(cry.phrase) :
          SplitSpace(cry.phrase)[n] # SplitSpace(cry.phrase)[1]

\* ------------------------------------------------------------------ delta.py

\* Longest fingerprint list handed to compute_delta.
MaxFiles == 2

\* FileFingerprint (models.py); mtime plays no part in the delta
FileFingerprint(path, hash, size) == [relative_path |-> path, sha256 |-> hash, size |-> size]

PathsOf(list) == {list[i].relative_path : i \in DOMAIN list}

\* parent_map[path] of the dict comprehension: the last fingerprint of that path
ParentMapGet(parent, path) ==
    parent[CHOOSE i \in DOMAIN parent :
              /\ parent[i].relative_path = path
              /\ \A j \in DOMAIN parent : parent[j].relative_path = path => j <= i]

\* the dict's iteration order: each key at its first insertion
ParentMapKeys(parent) ==
    LET first(i) == \A j \in 1..(i - 1) : parent[j].relative_path # parent[i].relative_path
        idx == SelectSeq([i \in DOMAIN parent |-> i], first)
    IN  [k \in DOMAIN idx |-> parent[idx[k]].relative_path]

DeltaResult(a, m, d, u) == [added |-> a, modified |-> m, deleted |-> d, unchanged |-> u]

\* An Optional[List]: None, or a list
None == [is_none |-> TRUE, list |-> <<>>]
Some(list) == [is_none |-> FALSE, list |-> list]

compute_delta_KeepsDeleted(current, parent) ==
    IF parent.is_none \/ parent.list = <<>>
    THEN DeltaResult(current, <<>>, <<>>, <<>>)
    ELSE LET pl == parent.list
             inParent(fp) == fp.relative_path \in PathsOf(pl)
             isAdded(fp) == ~inParent(fp)
             isModified(fp) ==
                 inParent(fp) /\ ParentMapGet(pl, fp.relative_path).sha256 # fp.sha256
             isUnchanged(fp) ==
                 inParent(fp) /\ ParentMapGet(pl, fp.relative_path).sha256 = fp.sha256
             keys == ParentMapKeys(pl)
         IN  DeltaResult(SelectSeq(current, isAdded),
                         SelectSeq(current, isModified),
                         [k \in DOMAIN keys |-> ParentMapGet(pl, keys[k])],
                         SelectSeq(current, isUnchanged))

compute_delta_ComparesRecord(current, parent) ==
    IF parent.is_none \/ parent.list = <<>>
    THEN DeltaResult(current, <<>>, <<>>, <<>>)
    ELSE LET pl == parent.list
             inParent(fp) == fp.relative_path \in PathsOf(pl)
             isAdded(fp) == ~inParent(fp)
             isModified(fp) ==
                 inParent(fp) /\ ParentMapGet(pl, fp.relative_path) # fp
             isUnchanged(fp) ==
                 inParent(fp) /\ ParentMapGet(pl, fp.relative_path) = fp
             gone(path) == path \notin PathsOf(current)
             keys == SelectSeq(ParentMapKeys(pl), gone)
         IN  DeltaResult(SelectSeq(current, isAdded),
                         SelectSeq(current, isModified),
                         [k \in DOMAIN keys |-> ParentMapGet(pl, keys[k])],
                         SelectSeq(current, isUnchanged))

\* compute_delta(current, parent)
compute_delta(current, parent) ==
    IF parent.is_none \/ parent.list = <<>>
    THEN DeltaResult(current, <<>>, <<>>, <<>>)
    ELSE LET pl == parent.list
             inParent(fp) == fp.relative_path \in PathsOf(pl)
             isAdded(fp) == ~inParent(fp)
             isModified(fp) ==
                 inParent(fp) /\ ParentMapGet(pl, fp.relative_path).sha256 # fp.sha256
             isUnchanged(fp) ==
                 inParent(fp) /\ ParentMapGet(pl, fp.relative_path).sha256 = fp.sha256
             gone(path) == path \notin PathsOf(current)
             keys == SelectSeq(ParentMapKeys(pl), gone)
         IN  DeltaResult(SelectSeq(current, isAdded),
                         SelectSeq(current, isModified),
                         [k \in DOMAIN keys |-> ParentMapGet(pl, keys[k])],
                         SelectSeq(current, isUnchanged))

\* ------------------------------------------------- the delta engine's scenario

DeltaPaths == {"a", "b", "c"}
DeltaHashes == {"h1", "h2"}
DeltaSizes == {1, 2}

\* Fingerprint lists as a scan yields them: one fingerprint per path, any order
NoPathTwice(list) ==
    \A i \in DOMAIN list, j \in DOMAIN list :
        list[i].relative_path = list[j].relative_path => i = j
CurrentLists ==
    {l \in SeqsUpTo({FileFingerprint(p, h, z) :
                        p \in DeltaPaths, h \in DeltaHashes, z \in DeltaSizes}, MaxFiles) :
        NoPathTwice(l)}
ParentLists ==
    {l \in SeqsUpTo({FileFingerprint(p, h, 1) : p \in DeltaPaths, h \in DeltaHashes},
                    MaxFiles) :
        NoPathTwice(l)}

DlInit == dl = [pc |-> "start", current |-> <<>>, parent |-> None,
                result |-> DeltaResult(<<>>, <<>>, <<>>, <<>>)]

\* compute_delta(current, parent) on a parent list
DlCompute ==
    /\ dl.pc = "start"
    /\ \E current \in CurrentLists, pl \in ParentLists :
          dl' = [pc |-> "done", current |-> current, parent |-> Some(pl),
                 result |-> compute_delta(current, Some(pl))]
    /\ UNCHANGED <<cry, heap, man, fs, snap>>

\* compute_delta(current, None)
DlComputeNoParent ==
    /\ dl.pc = "start"
    /\ \E current \in CurrentLists :
          dl' = [pc |-> "done", current |-> current, parent |-> None,
                 result |-> compute_delta(current, None)]
    /\ UNCHANGED <<cry, heap, man, fs, snap>>

DlNext == DlCompute \/ DlComputeNoParent

InitDelta == DlInit /\ CryIdle /\ ManIdle /\ SnapIdle

SpecDelta == InitDelta /\ [][DlNext]_vars

\* how often path occurs in list
Occurrences(list, path) == Cardinality({i \in DOMAIN list : list[i].relative_path = path})

Elems(list) == {list[i] : i \in DOMAIN list}

\* C9: compute_delta classifies by path and hash only: in both lists with equal
\* hash: unchanged; in both with a different hash: modified; only in current:
\* added; only in parent: deleted; and with no parent (None or the empty list)
\* every current fingerprint is added and the other three lists are empty.
C9_Classification ==
    dl.pc = "done" =>
        LET r == dl.result
            cur == dl.current
            par == dl.parent.list
            parHash(p) == (CHOOSE q \in Elems(par) : q.relative_path = p).sha256
        IN  IF dl.parent.is_none \/ par = <<>>
            THEN r = DeltaResult(cur, <<>>, <<>>, <<>>)
            ELSE /\ Elems(r.unchanged) =
                       {f \in Elems(cur) : f.relative_path \in PathsOf(par)
                                           /\ parHash(f.relative_path) = f.sha256}
                 /\ Elems(r.modified) =
                       {f \in Elems(cur) : f.relative_path \in PathsOf(par)
                                           /\ parHash(f.relative_path) # f.sha256}
                 /\ Elems(r.added) =
                       {f \in Elems(cur) : f.relative_path \notin PathsOf(par)}
                 /\ Elems(r.deleted) =
                       {q \in Elems(par) : q.relative_path \notin PathsOf(cur)}

\* a fingerprint whose size differs from its parent's and whose hash does not
\* was classified unchanged
C9_Witness ==
    /\ dl.pc = "done"
    /\ \E i \in DOMAIN dl.result.unchanged, q \in DOMAIN dl.parent.list :
          /\ dl.parent.list[q].relative_path = dl.result.unchanged[i].relative_path
          /\ dl.parent.list[q].size # dl.result.unchanged[i].size
    /\ dl.result.added # <<>>

\* ------------------------------------------------------------------ manifest.py

\* Most append_entry calls of a run, and longest entry list of a loaded manifest.
MaxAppends == 2
MaxLoaded == 2

\* str < str of Python: lexicographic on the characters' codes
RECURSIVE StrLess(_, _)
StrLess(a, b) ==
    IF b = <<>> THEN FALSE
    ELSE IF a = <<>> THEN TRUE
    ELSE IF a[1] # b[1] THEN a[1] < b[1]
    ELSE StrLess(Tail(a), Tail(b))

\* list.sort(key=lambda x: x.snapshot_id): a stable sort, here by insertion of
\* each element behind the elements that are not greater
RECURSIVE InsertByKey(_, _)
InsertByKey(sorted, e) ==
    IF sorted = <<>> THEN <<e>>
    ELSE IF StrLess(e.snapshot_id, sorted[1].snapshot_id) THEN <<e>> \o sorted
    ELSE <<sorted[1]>> \o InsertByKey(Tail(sorted), e)
RECURSIVE SortIntoBy(_, _)
SortIntoBy(done, rest) ==
    IF rest = <<>> THEN done ELSE SortIntoBy(InsertByKey(done, rest[1]), Tail(rest))
SortedBySnapshotId(list) == SortIntoBy(<<>>, list)

\* A Python list is an object of the heap, named by its reference; a Manifest
\* (models.py) holds its version and the reference of its entries list.
NewRef(h) == Len(h) + 1
Manifest(version, entries_ref) == [version |-> version, entries |-> entries_ref]

\* The heap after Manifest(version=..., entries=list) and the new model: pydantic
\* validates the list into a list of its own.
ConstructManifest(h, version, list) ==
    [heap |-> Append(h, list), obj |-> Manifest(version, NewRef(h))]

\* create_initial_manifest()
create_initial_manifest(h) == ConstructManifest(h, <<"1", ".", "0">>, <<>>)

append_entry_NoSort(h, manifest, entry) ==
    LET new_entries == NewRef(h)
        h1 == Append(h, h[manifest.entries])
        h2 == [h1 EXCEPT ![new_entries] = Append(h1[new_entries], entry)]
    IN  ConstructManifest(h2, manifest.version, h2[new_entries])

append_entry_NoCopy(h, manifest, entry) ==
    LET new_entries == manifest.entries
        h2 == [h EXCEPT ![new_entries] = SortedBySnapshotId(Append(h[new_entries], entry))]
    IN  ConstructManifest(h2, manifest.version, h2[new_entries])

\* append_entry(manifest, entry): the heap after the call and the model returned
append_entry(h, manifest, entry) ==
    LET new_entries == NewRef(h)
        h1 == Append(h, h[manifest.entries])
        h2 == [h1 EXCEPT ![new_entries] = SortedBySnapshotId(Append(h1[new_entries], entry))]
    IN  ConstructManifest(h2, manifest.version, h2[new_entries])

\* ---------------------------------------------------- the manifest's scenario

\* snapshot ids, as strings of digits: "10" sorts before "2"
SnapshotIds == {<<2>>, <<1, 0>>, <<3>>}
ManifestEntry(id) == [snapshot_id |-> id, filename |-> <<"s">> \o id]
Entries == {ManifestEntry(id) : id \in SnapshotIds}

\* objs: the Manifest values the program holds; made: how each of them was
\* made, by create_initial_manifest or load_manifest and the entries appended
\* since, in the order of the calls; last: the latest append_entry call, with
\* its argument's version and entries as they were before it
ManInit ==
    /\ heap = <<>>
    /\ man = [pc |-> "start", objs |-> <<>>, made |-> <<>>, appends |-> 0,
              last |-> [arg |-> 0, version |-> <<>>, entries |-> <<>>, entry |-> <<>>]]

\* create_initial_manifest()
ManCreate ==
    /\ man.pc = "start"
    /\ LET r == create_initial_manifest(heap)
       IN  /\ heap' = r.heap
           /\ man' = [man EXCEPT !.pc = "run", !.objs = <<r.obj>>,
                                 !.made = <<[initial |-> TRUE, appended |-> <<>>]>>]
    /\ UNCHANGED <<cry, dl, fs, snap>>

\* load_manifest(data) of a stored manifest, whose entries are in any order
ManLoad ==
    /\ man.pc = "start"
    /\ \E list \in SeqsUpTo(Entries, MaxLoaded) :
          LET r == ConstructManifest(heap, <<"1", ".", "0">>, list)
          IN  /\ heap' = r.heap
              /\ man' = [man EXCEPT !.pc = "run", !.objs = <<r.obj>>,
                                    !.made = <<[initial |-> FALSE, appended |-> <<>>]>>]
    /\ UNCHANGED <<cry, dl, fs, snap>>

\* append_entry(m, e) for a manifest m the program holds
ManAppend ==
    /\ man.pc = "run"
    /\ man.appends < MaxAppends
    /\ \E a \in DOMAIN man.objs, e \in Entries :
          LET m == man.objs[a]
              r == append_entry(heap, m, e)
          IN  /\ heap' = r.heap
              /\ man' = [man EXCEPT !.objs = Append(man.objs, r.obj),
                                    !.made = Append(man.made,
                                                    [man.made[a] EXCEPT
                                                        !.appended = Append(@, e)]),
                                    !.appends = man.appends + 1,
                                    !.last = [arg |-> a, version |-> m.version,
                                              entries |-> heap[m.entries],
                                              entry |-> e]]
    /\ UNCHANGED <<cry, dl, fs, snap>>

ManNext == ManCreate \/ ManLoad \/ ManAppend

InitManifest == ManInit /\ CryIdle /\ DlIdle /\ SnapIdle

SpecManifest == InitManifest /\ [][ManNext]_vars

\* C10: append_entry(m, e) never mutates m: after the call m has the version
\* and the entries, in the order, it had before.
C10_AppendDoesNotMutate ==
    man.pc = "run" /\ man.last.arg # 0 =>
        LET m == man.objs[man.last.arg]
        IN  /\ m.version = man.last.version
            /\ heap[m.entries] = man.last.entries

\* an entry that sorts before an entry of m was appended to m
C10_Witness ==
    /\ man.pc = "run"
    /\ man.last.arg # 0
    /\ \E i \in DOMAIN man.last.entries :
          StrLess(man.last.entry.snapshot_id, man.last.entries[i].snapshot_id)
    /\ heap[man.objs[man.last.arg].entries] = man.last.entries

\* the number of times e occurs in list
CountIn(list, e) == Cardinality({i \in DOMAIN list : list[i] = e})

\* C11: a manifest made from create_initial_manifest() by append_entry calls has
\* version "1.0", holds exactly the entries appended, each as often as it was
\* appended, and holds them in non-decreasing snapshot_id order.
C11_AppendedAndSorted ==
    man.pc = "run" =>
        \A a \in DOMAIN man.objs :
            man.made[a].initial =>
                LET entries == heap[man.objs[a].entries]
                    appended == man.made[a].appended
                IN  /\ man.objs[a].version = <<"1", ".", "0">>
                    /\ Len(entries) = Len(appended)
                    /\ \A e \in Entries : CountIn(entries, e) = CountIn(appended, e)
                    /\ \A i \in 1..(Len(entries) - 1) :
                          ~StrLess(entries[i + 1].snapshot_id, entries[i].snapshot_id)

\* an entry was appended to the initial manifest and then an entry that sorts
\* before it
C11_Witness ==
    /\ man.pc = "run"
    /\ \E a \in DOMAIN man.objs :
          /\ man.made[a].initial
          /\ Len(man.made[a].appended) = 2
          /\ StrLess(man.made[a].appended[2].snapshot_id,
                     man.made[a].appended[1].snapshot_id)
          /\ heap[man.objs[a].entries]
                = <<man.made[a].appended[2], man.made[a].appended[1]>>

\* ------------------------------------------------------ verify_integrity

\* Longest entry list verify_integrity is given.
MaxLedger == 3

\* the two messages of verify_integrity, each with the snapshot id it names
DuplicateError(id) == [msg |-> "Duplicate snapshot ID in manifest: ", id |-> id]
InvalidShaError(id) == [msg |-> "Invalid SHA-256 for snapshot ", id |-> id]

\* the checks of one pass of the loop on entry, seen being the ids of the
\* entries before it
EntryErrors(entry, seen) ==
    (IF entry.snapshot_id \in seen THEN <<DuplicateError(entry.snapshot_id)>> ELSE <<>>)
    \o (IF entry.sha256 = <<>> \/ Len(entry.sha256) # 64
        THEN <<InvalidShaError(entry.snapshot_id)>> ELSE <<>>)

\* the loop of verify_integrity over the entries left
RECURSIVE VerifyLoop(_, _, _)
VerifyLoop(entries, seen, errors) ==
    IF entries = <<>> THEN errors
    ELSE VerifyLoop(Tail(entries), seen \cup {entries[1].snapshot_id},
                    errors \o EntryErrors(entries[1], seen))

\* verify_integrity(manifest) on heap h
verify_integrity(h, manifest) == VerifyLoop(h[manifest.entries], {}, <<>>)

\* hexadecimal digits, and content hashes: a digest of 64 hexadecimal
\* characters, the empty str, 63 and 65 hexadecimal characters, and 64 characters
\* of which one is no hexadecimal digit
HexDigits == (48..57) \cup (97..102) \cup (65..70)
IsSha256Hex(text) == Len(text) = 64 /\ \A i \in DOMAIN text : text[i] \in HexDigits
LedgerHashes ==
    {[j \in 1..64 |-> 97], <<>>, [j \in 1..63 |-> 97], [j \in 1..65 |-> 97],
     [j \in 1..64 |-> IF j = 64 THEN 122 ELSE 97]}
LedgerIds == {<<49>>, <<50>>}
LedgerEntry(id, sha256) == [snapshot_id |-> id, filename |-> <<115>> \o id, sha256 |-> sha256]
LedgerEntries == {LedgerEntry(id, sha) : id \in LedgerIds, sha \in LedgerHashes}

\* a manifest as load_manifest returns it, with any entries
LedgerInit ==
    \E list \in SeqsUpTo(LedgerEntries, MaxLedger) :
        /\ heap = <<list>>
        /\ man = [pc |-> "loaded", obj |-> Manifest(<<"1", ".", "0">>, 1), errors |-> <<>>]

\* verify_integrity(manifest)
LedgerVerify ==
    /\ man.pc = "loaded"
    /\ man' = [man EXCEPT !.pc = "verified", !.errors = verify_integrity(heap, man.obj)]
    /\ UNCHANGED <<cry, dl, heap, fs, snap>>

InitLedger == LedgerInit /\ CryIdle /\ DlIdle /\ SnapIdle

SpecLedger == InitLedger /\ [][LedgerVerify]_vars

\* the entries of the manifest verified
LedgerList == heap[man.obj.entries]
RepeatsEarlierId(i) == \E j \in 1..(i - 1) : LedgerList[j].snapshot_id = LedgerList[i].snapshot_id

\* C12: verify_integrity returns a violation for every entry whose snapshot_id
\* repeats the id of an earlier entry and for every entry whose content hash is
\* not 64 hexadecimal characters, and returns the empty list when no id repeats
\* and every hash is 64 hexadecimal characters.
C12_VerifyIntegrity ==
    man.pc = "verified" =>
        /\ \A id \in LedgerIds :
              CountIn(man.errors, DuplicateError(id))
                = Cardinality({i \in DOMAIN LedgerList :
                                  LedgerList[i].snapshot_id = id /\ RepeatsEarlierId(i)})
        /\ \A id \in LedgerIds :
              CountIn(man.errors, InvalidShaError(id))
                = Cardinality({i \in DOMAIN LedgerList :
                                  LedgerList[i].snapshot_id = id
                                  /\ ~IsSha256Hex(LedgerList[i].sha256)})
        /\ ((\A i \in DOMAIN LedgerList : ~RepeatsEarlierId(i) /\ IsSha256Hex(LedgerList[i].sha256))
               => man.errors = <<>>)

\* ------------------------------------------------------------------ strings, paths

\* A str is the sequence of its characters' code points.
SLASH == <<47>>
DOT == <<46>>
DOTDOT == <<46, 46>>

\* pattern in text
IsSubstring(pattern, text) ==
    \E i \in 0..(Len(text) - Len(pattern)) : SubSeq(text, i + 1, i + Len(pattern)) = pattern

\* text.startswith(prefix)
StartsWith(text, prefix) ==
    Len(prefix) <= Len(text) /\ SubSeq(text, 1, Len(prefix)) = prefix

\* text.split("/")
RECURSIVE SplitSlash(_, _)
SplitSlash(text, piece) ==
    IF text = <<>> THEN <<piece>>
    ELSE IF <<text[1]>> = SLASH THEN <<piece>> \o SplitSlash(Tail(text), <<>>)
    ELSE SplitSlash(Tail(text), Append(piece, text[1]))

RECURSIVE JoinSlash(_)
JoinSlash(parts) ==
    IF parts = <<>> THEN <<>>
    ELSE IF Len(parts) = 1 THEN parts[1]
    ELSE parts[1] \o SLASH \o JoinSlash(Tail(parts))

\* pathlib's parse of a str: whether it is absolute, and its parts without the
\* empty and "." components
IsAbsolute(text) == text # <<>> /\ <<text[1]>> = SLASH
PartsOf(text) == SelectSeq(SplitSlash(text, <<>>), LAMBDA c : c # <<>> /\ c # DOT)

\* Path.resolve() of an absolute path given by its parts, in a tree without
\* symbolic links: ".." steps up and stops at the root
RECURSIVE ResolveParts(_, _)
ResolveParts(done, rest) ==
    IF rest = <<>> THEN done
    ELSE IF rest[1] = DOTDOT
         THEN ResolveParts(IF done = <<>> THEN <<>> ELSE SubSeq(done, 1, Len(done) - 1),
                           Tail(rest))
         ELSE ResolveParts(Append(done, rest[1]), Tail(rest))

\* (base / name).resolve() for a resolved base: an absolute name replaces base
JoinResolve(base, name) ==
    IF IsAbsolute(name) THEN ResolveParts(<<>>, PartsOf(name))
    ELSE ResolveParts(base, PartsOf(name))

\* str(path) of an absolute path
StrOfPath(path) == IF path = <<>> THEN SLASH ELSE SLASH \o JoinSlash(path)

\* path.relative_to(base).as_posix()
RelativePosix(path, base) ==
    IF path = base THEN DOT ELSE JoinSlash(SubSeq(path, Len(base) + 1, Len(path)))

ParentOf(path) == IF path = <<>> THEN <<>> ELSE SubSeq(path, 1, Len(path) - 1)

\* path is base or lies under it / lies under it
IsUnder(path, base) == Len(base) <= Len(path) /\ SubSeq(path, 1, Len(base)) = base
IsStrictDescendant(path, base) == IsUnder(path, base) /\ path # base

\* ------------------------------------------------------------------ utils.py

\* validate_path(base / path_text, base), base given by its parts
validate_path(path_text, base) ==
    LET resolved_path == JoinResolve(base, path_text)
        resolved_base == ResolveParts(<<>>, base)
    IN  IF ~StartsWith(StrOfPath(resolved_path), StrOfPath(resolved_base))
        THEN Raise("PathTraversalError", "escapes base directory")
        ELSE Ok(resolved_path)

\* ------------------------------------------------------------------ the file system

\* A file system maps the absolute paths that exist to their nodes; the root
\* always exists. ino > 0 names an inode that several paths may share.
DirNode == [type |-> "dir", content |-> <<>>, ino |-> 0]
FileNode(content, ino) == [type |-> "file", content |-> content, ino |-> ino]

Exists(f, path) == path \in DOMAIN f
IsDir(f, path) == Exists(f, path) /\ f[path].type = "dir"
IsFile(f, path) == Exists(f, path) /\ f[path].type = "file"

Prefixes(path) == {SubSeq(path, 1, n) : n \in 0..Len(path)}

\* Path.mkdir(parents=True, exist_ok=True)
MkdirParents(f, path) ==
    IF \E q \in Prefixes(path) : IsFile(f, q)
    THEN [err |-> IF IsFile(f, path) THEN "FileExistsError" ELSE "NotADirectoryError",
          fs |-> f]
    ELSE [err |-> "none",
          fs |-> [q \in DOMAIN f \cup Prefixes(path) |->
                    IF q \in DOMAIN f THEN f[q] ELSE DirNode]]

\* Path.mkdir(exist_ok=True), the parent being a directory
Mkdir(f, path) ==
    IF IsFile(f, path) THEN [err |-> "FileExistsError", fs |-> f]
    ELSE [err |-> "none",
          fs |-> [q \in DOMAIN f \cup {path} |-> IF q \in DOMAIN f THEN f[q] ELSE DirNode]]

\* path.open("wb") and write(content), the parent being a directory
WriteFile(f, path, content) ==
    IF IsDir(f, path) THEN [err |-> "IsADirectoryError", fs |-> f]
    ELSE [err |-> "none",
          fs |-> [q \in DOMAIN f \cup {path} |->
                    IF q = path
                    THEN FileNode(content, IF Exists(f, path) THEN f[path].ino ELSE 0)
                    ELSE f[q]]]

\* the room left on the disk: unlimited, or a number of bytes
NoLimit == [limited |-> FALSE, bytes |-> 0]
RoomOf(n) == [limited |-> TRUE, bytes |-> n]

\* path.open("wb") and write(content) on a disk with that room: a write
\* beyond it leaves the bytes that fitted and raises OSError (ENOSPC)
WriteFileUpTo(f, path, content, room) ==
    IF room.limited /\ room.bytes < Len(content) /\ ~IsDir(f, path)
    THEN [err |-> "OSError", fs |-> WriteFile(f, path, Take(content, room.bytes)).fs]
    ELSE WriteFile(f, path, content)

\* Path.unlink()
Unlink(f, path) ==
    IF IsDir(f, path) THEN [err |-> "IsADirectoryError", fs |-> f]
    ELSE [err |-> "none", fs |-> [q \in DOMAIN f \ {path} |-> f[q]]]

\* Path.rmdir(): only an empty directory is removed
Rmdir(f, path) ==
    IF IsDir(f, path) /\ ~\E q \in DOMAIN f : IsStrictDescendant(q, path)
    THEN [err |-> "none", fs |-> [q \in DOMAIN f \ {path} |-> f[q]]]
    ELSE [err |-> "OSError", fs |-> f]

\* ------------------------------------------------------------------ tarfile, gzip

\* The gzip-compressed tar archive of a list of members is modelled by a
\* length-prefixed encoding: per member the name's length, the name, the type
\* flag, the content's length and the content.
TarMember(name, type, content) == [name |-> name, type |-> type, content |-> content]
TypeFlag == [file |-> 48, link |-> 49, dir |-> 53]
TypeOfFlag(flag) == CHOOSE t \in DOMAIN TypeFlag : TypeFlag[t] = flag

RECURSIVE TarGzip(_)
TarGzip(members) ==
    IF members = <<>> THEN <<>>
    ELSE LET m == members[1]
         IN  <<Len(m.name)>> \o m.name \o <<TypeFlag[m.type], Len(m.content)>>
               \o m.content \o TarGzip(Tail(members))

\* tar.getmembers() of the archive in data, or ReadError
RECURSIVE Untar(_, _)
Untar(data, members) ==
    IF data = <<>> THEN Ok(members)
    ELSE LET n == data[1]
         IN  IF Len(data) < n + 3 THEN Raise("ReadError", "")
             ELSE LET name == SubSeq(data, 2, n + 1)
                      flag == data[n + 2]
                      size == data[n + 3]
                  IN  IF flag \notin {TypeFlag[t] : t \in DOMAIN TypeFlag}
                         \/ Len(data) < n + 3 + size
                      THEN Raise("ReadError", "")
                      ELSE Untar(Drop(data, n + 3 + size),
                                 Append(members,
                                        TarMember(name, TypeOfFlag(flag),
                                                  SubSeq(data, n + 4, n + 3 + size))))

\* ------------------------------------------------------------------ scan_directory

\* hashlib.sha256(...).hexdigest(): an ideal hash, one digest per content
sha256_file(content) == <<Len(content)>> \o content

\* the sequence of the elements of a set of strs, in increasing order
RECURSIVE SortedStrs(_)
SortedStrs(S) ==
    IF S = {} THEN <<>>
    ELSE LET least == CHOOSE x \in S : \A y \in S \ {x} : StrLess(x, y)
         IN  <<least>> \o SortedStrs(S \ {least})

\* the exclusion tests of scan_directory on a directory's and a file's
\* relative path
skip_dir(patterns, rel_root) ==
    \E pattern \in patterns :
        \/ IsSubstring(pattern, rel_root)
        \/ IsSubstring(SLASH \o pattern \o SLASH, SLASH \o rel_root \o SLASH)
skip_file(patterns, rel_file) == \E pattern \in patterns : IsSubstring(pattern, rel_file)

\* the paths os.walk yields that scan_directory keeps
files_to_scan(f, base_dir, patterns) ==
    {path \in DOMAIN f :
        /\ IsStrictDescendant(path, base_dir)
        /\ ~skip_dir(patterns, RelativePosix(ParentOf(path), base_dir))
        /\ ~skip_file(patterns, RelativePosix(path, base_dir))
        /\ IsFile(f, path)}

\* scan_file(filepath, base_dir)
scan_file(f, filepath, base_dir) ==
    FileFingerprint(RelativePosix(filepath, base_dir), sha256_file(f[filepath].content),
                    Len(f[filepath].content))

\* the fingerprints of the kept files, sorted by relative path
SortedFingerprints(f, base_dir, rels) ==
    [i \in DOMAIN rels |-> scan_file(f, base_dir \o PartsOf(rels[i]), base_dir)]

\* scan_directory below the resolved base_dir
ScanUnder(f, base_dir, patterns) ==
    SortedFingerprints(f, base_dir,
                       SortedStrs({RelativePosix(path, base_dir) :
                                      path \in files_to_scan(f, base_dir, patterns)}))

\* scan_directory(source_dir, exclude_patterns) on file system f: the
\* fingerprints of the regular files under source_dir that no pattern excludes,
\* sorted by relative path
scan_directory(f, source_dir, exclude_patterns) ==
    ScanUnder(f, ResolveParts(<<>>, source_dir),
              {exclude_patterns[i] : i \in DOMAIN exclude_patterns})

\* ------------------------------------------------------------------ snapshot.py

MAGIC_BYTES == <<84, 66, 75, 7>>
META_NAME == <<46, 116, 98, 107, 95, 109, 101, 116, 97, 46, 106, 115, 111, 110>>

\* The base64 alphabet: the character of a 6-bit value, and the value of a
\* character ("=" pads).
B64_PAD == 61
B64Char(v) ==
    IF v < 26 THEN 65 + v
    ELSE IF v < 52 THEN 97 + (v - 26)
    ELSE IF v < 62 THEN 48 + (v - 52)
    ELSE IF v = 62 THEN 43 ELSE 47
B64Alphabet == (65..90) \cup (97..122) \cup (48..57) \cup {43, 47}
B64Value(c) ==
    IF c \in 65..90 THEN c - 65
    ELSE IF c \in 97..122 THEN c - 97 + 26
    ELSE IF c \in 48..57 THEN c - 48 + 52
    ELSE IF c = 43 THEN 62 ELSE 63

\* base64.b64encode(bytes).decode("ascii"): 4 characters per 3 bytes, the last
\* group padded
B64ByteAt(bytes, k) == IF k <= Len(bytes) THEN bytes[k] ELSE 0
B64EncodedChar(bytes, g, r) ==
    IF r = 0 THEN B64Char(bytes[3 * g + 1] \div 4)
    ELSE IF r = 1
    THEN B64Char((bytes[3 * g + 1] % 4) * 16 + B64ByteAt(bytes, 3 * g + 2) \div 16)
    ELSE IF r = 2
    THEN IF 3 * g + 2 > Len(bytes) THEN B64_PAD
         ELSE B64Char((bytes[3 * g + 2] % 16) * 4 + B64ByteAt(bytes, 3 * g + 3) \div 64)
    ELSE IF 3 * g + 3 > Len(bytes) THEN B64_PAD
         ELSE B64Char(bytes[3 * g + 3] % 64)
b64encode(bytes) ==
    [c \in 1..(4 * ((Len(bytes) + 2) \div 3)) |->
        B64EncodedChar(bytes, (c - 1) \div 4, (c - 1) % 4)]

\* the bytes of a sequence of 6-bit values: 3 per 4 values, and 1 or 2 for the
\* 2 or 3 values of a last group
B64DecodedByte(quads, g, r) ==
    IF r = 0 THEN quads[4 * g + 1] * 4 + quads[4 * g + 2] \div 16
    ELSE IF r = 1 THEN (quads[4 * g + 2] % 16) * 16 + quads[4 * g + 3] \div 4
    ELSE (quads[4 * g + 3] % 4) * 64 + quads[4 * g + 4]
B64Bytes(quads) ==
    [k \in 1..((Len(quads) * 6) \div 8) |->
        B64DecodedByte(quads, (k - 1) \div 3, (k - 1) % 3)]

\* binascii.a2b_base64 without strict mode, at the pad character text[i]:
\* quad_pos, the pads counted behind the last data character, and whether the
\* pad sequence completes a group, which ends the input
B64QuadPos(text, i) == Cardinality({j \in 1..(i - 1) : text[j] \in B64Alphabet}) % 4
B64PadsBefore(text, i) ==
    Cardinality({j \in 1..(i - 1) :
                    /\ text[j] = B64_PAD
                    /\ \A k \in j..(i - 1) : text[k] \notin B64Alphabet})
B64EndsAt(text, i) ==
    /\ text[i] = B64_PAD
    /\ B64QuadPos(text, i) >= 2
    /\ B64QuadPos(text, i) + B64PadsBefore(text, i) + 1 >= 4

\* the 6-bit values of the data characters of text; the others are skipped
B64Values(chars) == [k \in DOMAIN chars |-> B64Value(chars[k])]
B64Quads(text) == B64Values(SelectSeq(text, LAMBDA c : c \in B64Alphabet))

\* the decoding of text whose pad sequences of ends end the input: input that
\* ends inside a group raises binascii.Error
B64Decode(text, ends) ==
    IF ends # {}
    THEN Ok(B64Bytes(B64Quads(SubSeq(text, 1, (CHOOSE i \in ends : \A k \in ends : i <= k) - 1))))
    ELSE IF Len(B64Quads(text)) % 4 # 0 THEN Raise("binascii.Error", "Incorrect padding")
    ELSE Ok(B64Bytes(B64Quads(text)))

\* base64.b64decode(text)
b64decode(text) == B64Decode(text, {i \in DOMAIN text : B64EndsAt(text, i)})

\* Profile (models.py): the fields the engine reads; pydantic ignores any other
\* keyword given to the constructor
Profile(source_dir, exclude_patterns, master_key_enc, master_key_salt, recovery_key_enc, recovery_key_salt) ==
    [source_dir |-> source_dir, exclude_patterns |-> exclude_patterns,
     master_key_enc |-> master_key_enc, master_key_salt |-> master_key_salt,
     recovery_key_enc |-> recovery_key_enc, recovery_key_salt |-> recovery_key_salt]

\* the try block of get_master_dek
UnwrapDek(dek) ==
    IF dek.err = "DecryptionError"
    THEN Raise("DecryptionError", "Incorrect password for this profile.")
    ELSE dek

\* get_master_dek behind derive_key: enc_dek is decoded and decrypted
UnwrapWithKek(key_encrypting_key, enc_dek) ==
    IF key_encrypting_key.err # "none" THEN key_encrypting_key
    ELSE IF enc_dek.err # "none" THEN enc_dek
    ELSE UnwrapDek(decrypt(enc_dek.val, key_encrypting_key.val))

\* get_master_dek behind the decoding of the salt
UnwrapWithSalt(salt, master_key_enc, password) ==
    IF salt.err # "none" THEN salt
    ELSE UnwrapWithKek(derive_key(password, salt.val), b64decode(master_key_enc))

\* get_master_dek(profile, password)
get_master_dek(profile, password) ==
    UnwrapWithSalt(b64decode(profile.master_key_salt), profile.master_key_enc, password)

\* n.to_bytes(2, "big") and int.from_bytes(b, "big")
ToBytes2(n) == <<(n \div 256) % 256, n % 256>>
FromBytes2(b) == b[1] * 256 + b[2]

\* The temp build directory and the container's file name of a snapshot id
\* ("b_<id>" for termbackup_build_<id>, "s_<id>" for snapshot_<id>.tbk).
TEMP == << <<116, 109, 112>> >>
BuildDir(snap_id) == Append(TEMP, <<98, 95>> \o snap_id)
SnapFilename(snap_id) == <<115, 95>> \o snap_id

\* the metadata member, then one member per fingerprint: tar.add stores a
\* regular file whose inode it has already stored as a hard link without content
RECURSIVE TarAddAll(_, _, _, _)
TarAddAll(f, source_dir, fingerprints, inodes) ==
    IF fingerprints = <<>> THEN <<>>
    ELSE LET rel == fingerprints[1].relative_path
             node == f[source_dir \o PartsOf(rel)]
             linked == node.ino # 0 /\ node.ino \in inodes
         IN  <<IF linked THEN TarMember(rel, "link", <<>>)
                 ELSE TarMember(rel, "file", node.content)>>
               \o TarAddAll(f, source_dir, Tail(fingerprints), inodes \cup {node.ino})

MetaMember(snap_id, parent_id) == TarMember(META_NAME, "file", snap_id \o <<44>> \o parent_id)

\* step 5 of create_snapshot: the bytes written,
\* MAGIC, nonce, signature length, signature, encrypted payload
ContainerBytes(nonce, signature, encrypted_payload) ==
    IF signature.err # "none" THEN signature
    ELSE Ok(MAGIC_BYTES \o nonce \o ToBytes2(Len(signature.val))
              \o signature.val \o encrypted_payload)

\* step 4: the encrypted payload is signed
SignContainer(nonce, encrypted_payload, signing_key_raw) ==
    ContainerBytes(nonce, sign(encrypted_payload, signing_key_raw), encrypted_payload)

\* steps 2 and 3: the archive is compressed and encrypted under the DEK
PackContainer(members, dek, nonce, signing_key_raw) ==
    IF Len(dek) \notin {16, 24, 32} THEN Raise("ValueError", "AESGCM key")
    ELSE SignContainer(nonce, AESGCM_encrypt(dek, nonce, TarGzip(members)), signing_key_raw)

\* step 1 of create_snapshot behind the scan: len(fingerprints) and
\* sum(f.size for f in fingerprints)
file_count_CountsMeta(fingerprints) == Len(fingerprints) + 1
file_count(fingerprints) == Len(fingerprints)
total_size(fingerprints) == SumSeq([i \in DOMAIN fingerprints |-> fingerprints[i].size])

SnapshotMeta(snap_id, parent_id, count, size, nonce) ==
    [snapshot_id |-> snap_id, parent_id |-> parent_id, file_count |-> count,
     total_size |-> size, nonce_b64 |-> b64encode(nonce)]

CreateCleanup_KeepsDir(temp_dir, unlinked) ==
    IF unlinked.err # "none"
    THEN [res |-> Raise(unlinked.err, "tbk_path.unlink"), fs |-> unlinked.fs]
    ELSE [res |-> Raise("SnapshotCreationError", "Failed to create snapshot"),
          fs |-> unlinked.fs]

\* the except branch of create_snapshot behind tbk_path.unlink()
CreateCleanup(temp_dir, unlinked) ==
    IF unlinked.err # "none"
    THEN [res |-> Raise(unlinked.err, "tbk_path.unlink"), fs |-> unlinked.fs]
    ELSE [res |-> Raise("SnapshotCreationError", "Failed to create snapshot"),
          fs |-> Rmdir(unlinked.fs, temp_dir).fs]

\* the return of create_snapshot, or its except branch
CreateWritten(temp_dir, tbk_path, meta, written) ==
    IF written.err = "none"
    THEN [res |-> Ok([tbk_path |-> tbk_path, meta |-> meta]), fs |-> written.fs]
    ELSE CreateCleanup(temp_dir,
                       IF Exists(written.fs, tbk_path) THEN Unlink(written.fs, tbk_path)
                       ELSE [err |-> "none", fs |-> written.fs])

\* the container is written to tbk_path
CreatePacked(f, temp_dir, tbk_path, meta, packed, room) ==
    CreateWritten(temp_dir, tbk_path, meta,
                  IF packed.err = "none" THEN WriteFileUpTo(f, tbk_path, packed.val, room)
                  ELSE [err |-> packed.err, fs |-> f])

\* the try block of create_snapshot, temp_dir.mkdir done
CreateScanned(f, dek, source_dir, fingerprints, made, signing_key_raw, parent_id, nonce, snap_id, room) ==
    IF made.err # "none" THEN [res |-> Raise(made.err, "temp_dir.mkdir"), fs |-> f]
    ELSE CreatePacked(made.fs, BuildDir(snap_id),
                      Append(BuildDir(snap_id), SnapFilename(snap_id)),
                      SnapshotMeta(snap_id, parent_id, file_count(fingerprints),
                                   total_size(fingerprints), nonce),
                      PackContainer(<<MetaMember(snap_id, parent_id)>>
                                       \o TarAddAll(f, source_dir, fingerprints, {}),
                                    dek, nonce, signing_key_raw),
                      room)

\* create_snapshot behind get_master_dek
CreateWithDek(f, profile, dek, source_dir, signing_key_raw, parent_id, nonce, snap_id, room) ==
    IF dek.err # "none" THEN [res |-> dek, fs |-> f]
    ELSE IF ~IsDir(f, source_dir)
    THEN [res |-> Raise("SnapshotCreationError", "source is not a directory"), fs |-> f]
    ELSE CreateScanned(f, dek.val, source_dir,
                       scan_directory(f, source_dir, profile.exclude_patterns),
                       MkdirParents(f, BuildDir(snap_id)),
                       signing_key_raw, parent_id, nonce, snap_id, room)

\* create_snapshot(profile, password, signing_key_raw, parent_id) on file system
\* f, with the nonce and the snapshot id the call draws and the room the disk
\* has for the container: the outcome and the file system after the call
create_snapshot(f, profile, password, signing_key_raw, parent_id, nonce, snap_id, room) ==
    CreateWithDek(f, profile, get_master_dek(profile, password),
                  ResolveParts(<<>>, profile.source_dir),
                  signing_key_raw, parent_id, nonce, snap_id, room)

\* ------------------------------------------------------------------ restore.py

DecryptPayload_NoTagCheck(dek, nonce, encrypted_payload) ==
    IF Len(dek) \notin {16, 24, 32} \/ Len(encrypted_payload) < TAG_LEN
    THEN Raise("DecryptionError", "Failed to decrypt snapshot")
    ELSE Ok([i \in 1..(Len(encrypted_payload) - TAG_LEN) |->
                (encrypted_payload[i] + 512 - GcmStream(dek, nonce) - i) % 256])

\* the try block of _read_snapshot_payload
DecryptPayload(dek, nonce, encrypted_payload) ==
    IF Len(dek) \notin {16, 24, 32}
          \/ AESGCM_decrypt(dek, nonce, encrypted_payload).err # "none"
    THEN Raise("DecryptionError", "Failed to decrypt snapshot")
    ELSE AESGCM_decrypt(dek, nonce, encrypted_payload)

\* _read_snapshot_payload behind the reads: the signature is verified when a
\* public key is given (no key is <<>>), then the payload is decrypted
VerifyAndDecrypt(nonce, signature, encrypted_payload, dek, public_key_raw) ==
    IF public_key_raw # <<>> /\ ~verify(encrypted_payload, signature, public_key_raw)
    THEN Raise("RestoreExtractionError", "Signature verification failed.")
    ELSE DecryptPayload(dek, nonce, encrypted_payload)

\* f.read(sig_len) and f.read() of the bytes behind the signature length
ReadSigned(nonce, sig_len, rest, dek, public_key_raw) ==
    VerifyAndDecrypt(nonce, Take(rest, sig_len), Drop(rest, sig_len), dek, public_key_raw)

\* the reads of magic, nonce and signature length from the file's bytes
ReadContainer(data, dek, public_key_raw) ==
    IF Take(data, Len(MAGIC_BYTES)) # MAGIC_BYTES
    THEN Raise("RestoreExtractionError", "Invalid magic bytes. Not a valid tbk file.")
    ELSE IF Len(Take(Drop(data, Len(MAGIC_BYTES) + NONCE_LEN), 2)) < 2
    THEN Raise("RestoreExtractionError", "File too short.")
    ELSE ReadSigned(Take(Drop(data, Len(MAGIC_BYTES)), NONCE_LEN),
                    FromBytes2(Take(Drop(data, Len(MAGIC_BYTES) + NONCE_LEN), 2)),
                    Drop(data, Len(MAGIC_BYTES) + NONCE_LEN + 2),
                    dek, public_key_raw)

\* _read_snapshot_payload(tbk_path, dek, public_key_raw)
read_snapshot_payload(f, tbk_path, dek, public_key_raw) ==
    IF ~IsFile(f, tbk_path) THEN Raise("OSError", "tbk_path.open")
    ELSE ReadContainer(f[tbk_path].content, dek, public_key_raw)

\* the end of one pass of the loop: the member was placed, or placing it raised
ExtractPlaced(f, placed) ==
    IF placed.err # "none"
    THEN [res |-> Raise("RestoreExtractionError", "Extraction failed"), fs |-> f]
    ELSE [res |-> Ok(<<>>), fs |-> placed.fs]

\* extracted_path.parent.mkdir done: a directory member is made, a regular
\* file member written, any other member left out
ExtractInto(f, member, extracted_path, parent) ==
    IF parent.err # "none"
    THEN [res |-> Raise("RestoreExtractionError", "Extraction failed"), fs |-> f]
    ELSE ExtractPlaced(parent.fs,
                       IF member.type = "dir" THEN Mkdir(parent.fs, extracted_path)
                       ELSE IF member.type = "file"
                       THEN WriteFile(parent.fs, extracted_path, member.content)
                       ELSE [err |-> "none", fs |-> parent.fs])

ExtractChecked_NoProtection(f, member, checked, overwrite) ==
    IF checked.err # "none" THEN [res |-> Ok(<<>>), fs |-> f]
    ELSE ExtractInto(f, member, checked.val, MkdirParents(f, ParentOf(checked.val)))

ExtractChecked_SkipsExisting(f, member, checked, overwrite) ==
    IF checked.err # "none" THEN [res |-> Ok(<<>>), fs |-> f]
    ELSE IF Exists(f, checked.val) /\ ~overwrite THEN [res |-> Ok(<<>>), fs |-> f]
    ELSE ExtractInto(f, member, checked.val, MkdirParents(f, ParentOf(checked.val)))

\* one pass of the loop behind validate_path: the path traversal defense and
\* the overwrite protection
ExtractChecked(f, member, checked, overwrite) ==
    IF checked.err # "none" THEN [res |-> Ok(<<>>), fs |-> f]
    ELSE IF Exists(f, checked.val) /\ ~overwrite
    THEN [res |-> Raise("RestoreExtractionError", "already exists. Use overwrite=True."),
          fs |-> f]
    ELSE ExtractInto(f, member, checked.val, MkdirParents(f, ParentOf(checked.val)))

\* One pass of the loop over tar.getmembers(): the file system after the member
\* and the error raised, if any.
ExtractMember(f, member, target_dir, overwrite) ==
    IF member.name = META_NAME THEN [res |-> Ok(<<>>), fs |-> f]
    ELSE ExtractChecked(f, member, validate_path(member.name, target_dir), overwrite)

\* the loop over tar.getmembers(): it ends at the first member that raises
RECURSIVE ExtractAll(_, _, _, _)
ExtractNext(one, rest, target_dir, overwrite) ==
    IF one.res.err # "none" THEN one
    ELSE ExtractAll(one.fs, rest, target_dir, overwrite)
ExtractAll(f, members, target_dir, overwrite) ==
    IF members = <<>> THEN [res |-> Ok(<<>>), fs |-> f]
    ELSE ExtractNext(ExtractMember(f, members[1], target_dir, overwrite), Tail(members),
                     target_dir, overwrite)

\* restore_snapshot behind target_dir.mkdir and the opening of the archive
RestoreInto(f, made, members, target_dir, overwrite) ==
    IF made.err # "none" THEN [res |-> Raise(made.err, "target_dir.mkdir"), fs |-> f]
    ELSE IF members.err # "none"
    THEN [res |-> Raise("RestoreExtractionError", "Extraction failed"), fs |-> made.fs]
    ELSE ExtractAll(made.fs, members.val, target_dir, overwrite)

RestorePayload_MkdirFirst(f, plaintext, target_dir, overwrite) ==
    IF plaintext.err # "none" THEN [res |-> plaintext, fs |-> MkdirParents(f, target_dir).fs]
    ELSE RestoreInto(f, MkdirParents(f, target_dir), Untar(plaintext.val, <<>>),
                     target_dir, overwrite)

\* restore_snapshot behind _read_snapshot_payload
RestorePayload(f, plaintext, target_dir, overwrite) ==
    IF plaintext.err # "none" THEN [res |-> plaintext, fs |-> f]
    ELSE RestoreInto(f, MkdirParents(f, target_dir), Untar(plaintext.val, <<>>),
                     target_dir, overwrite)

\* restore_snapshot behind get_master_dek
RestoreWithDek(f, tbk_path, dek, target_dir, public_key_raw, overwrite) ==
    IF dek.err # "none" THEN [res |-> dek, fs |-> f]
    ELSE RestorePayload(f, read_snapshot_payload(f, tbk_path, dek.val, public_key_raw),
                        target_dir, overwrite)

\* restore_snapshot(tbk_path, profile, password, target_dir, public_key_raw,
\* overwrite) on file system f: the outcome and the file system after the call
restore_snapshot(f, tbk_path, profile, password, target_dir, public_key_raw, overwrite) ==
    RestoreWithDek(f, tbk_path, get_master_dek(profile, password),
                   ResolveParts(<<>>, target_dir), public_key_raw, overwrite)

\* ---------------------------------------------------- the snapshot scenario

\* Most members of an archive that was not made by create_snapshot here.
MaxMembers == 2

SourceDir == << <<115>> >>
TargetDir == << <<116>>, <<114>> >>
SiblingDir == << <<116>>, <<114, 50>> >>
OutsideDir == << <<101>> >>

\* The profile of the scenario, made as the test fixture makes it
ProfilePassword == <<112, 97>>
ProfileSalt == [j \in 1..SALT_LEN |-> 7]
ProfileDek == [j \in 1..KEY_LEN |-> 200]
ProfileSigningKey == [j \in 1..KEY_LEN |-> 100]
OtherSigningKey == [j \in 1..KEY_LEN |-> 103]
FixtureNonce == [j \in 1..NONCE_LEN |-> 1]
SnapshotNonce == [j \in 1..NONCE_LEN |-> 254]
ExcludePattern == <<120>>
FixtureProfile ==
    Profile(SourceDir, <<ExcludePattern>>,
            b64encode(encrypt(ProfileDek, derive_key(ProfilePassword, ProfileSalt).val,
                              FixtureNonce).val),
            b64encode(ProfileSalt), <<>>, <<>>)

\* Source files: relative path, content, inode (0: not shared). "c" is a hard
\* link to "a"; "xa" matches the exclude pattern.
SourceCandidates ==
    { [rel |-> <<97>>, content |-> <<65>>, ino |-> 1],
      [rel |-> <<99>>, content |-> <<65>>, ino |-> 1],
      [rel |-> <<100, 47, 98>>, content |-> <<66>>, ino |-> 0],
      [rel |-> <<101>>, content |-> <<>>, ino |-> 0],
      [rel |-> <<120, 97>>, content |-> <<88>>, ino |-> 0],
      [rel |-> META_NAME, content |-> <<77>>, ino |-> 0] }
\* a and c share an inode only when both are there
InoIn(tree, file) ==
    IF file.ino # 0 /\ Cardinality({g \in tree : g.ino = file.ino}) > 1 THEN file.ino ELSE 0
SourceTrees == SUBSET SourceCandidates

\* Target layouts: the files (relative path, content) and directories under
\* the target directory, or no target directory
OldContent == <<111>>
TargetLayouts ==
    { [present |-> FALSE, files |-> {}, dirs |-> {}],
      [present |-> TRUE, files |-> {}, dirs |-> {}],
      [present |-> TRUE, files |-> {<<97>>}, dirs |-> {}],
      [present |-> TRUE, files |-> {<<97>>, <<100>>}, dirs |-> {}],
      [present |-> TRUE, files |-> {<<100, 47, 98>>}, dirs |-> {<<100>>}],
      [present |-> TRUE, files |-> {}, dirs |-> {<<97>>}] }
EmptyTarget == [present |-> TRUE, files |-> {}, dirs |-> {}]

\* The file system of a source tree and a target layout; beside the target
\* there are /t/r2/x and /e/p.
MakeFs(tree, layout) ==
    LET fixedDirs == {<<>>, SourceDir, ParentOf(TargetDir), SiblingDir, OutsideDir, TEMP}
        fixedFiles == {Append(SiblingDir, <<120>>), Append(OutsideDir, <<112>>)}
        srcFiles == {SourceDir \o PartsOf(g.rel) : g \in tree}
        srcDirs == UNION {Prefixes(ParentOf(q)) : q \in srcFiles}
        tgtFiles == {TargetDir \o PartsOf(r) : r \in layout.files}
        tgtDirs == (IF layout.present THEN {TargetDir} ELSE {})
                      \cup {TargetDir \o PartsOf(r) : r \in layout.dirs}
        srcOf(q) == CHOOSE g \in tree : SourceDir \o PartsOf(g.rel) = q
    IN  [q \in fixedDirs \cup fixedFiles \cup srcFiles \cup srcDirs \cup tgtFiles \cup tgtDirs |->
            IF q \in srcFiles THEN FileNode(srcOf(q).content, InoIn(tree, srcOf(q)))
            ELSE IF q \in fixedFiles \cup tgtFiles THEN FileNode(OldContent, 0)
            ELSE DirNode]

\* Members of an archive made elsewhere under the profile's keys
NewContent == <<78>>
LaterContent == <<76>>
MemberPool ==
    { TarMember(<<97>>, "file", NewContent),                          \* a
      TarMember(<<97>>, "file", LaterContent),                        \* a, other content
      TarMember(<<100, 47, 98>>, "file", NewContent),                 \* d/b
      TarMember(<<100>>, "dir", <<>>),                                \* d
      TarMember(<<97>>, "link", <<>>),                                \* a, a hard link
      TarMember(<<46, 46, 47, 114, 50, 47, 121>>, "file", NewContent),        \* ../r2/y
      TarMember(<<46, 46, 47, 46, 46, 47, 101, 47, 112>>, "file", NewContent), \* ../../e/p
      TarMember(<<47, 101, 47, 112>>, "file", NewContent),            \* /e/p
      TarMember(META_NAME, "file", NewContent) }
Archives == SeqsUpTo(MemberPool, MaxMembers)

Scenarios ==
    {[kind |-> "own", tree |-> t, layout |-> EmptyTarget] : t \in SourceTrees}
    \cup {[kind |-> "foreign", tree |-> {}, layout |-> l] : l \in TargetLayouts}

NoCall == [pw |-> <<>>, pub |-> <<>>, overwrite |-> FALSE]

\* The scenario before any call: tamper is the byte of the container that was
\* changed (at 0: none), fs0 the file system as the last restore found it.
SnapStart(kind) ==
    [pc |-> "start", kind |-> kind, profile |-> FixtureProfile,
     keypair |-> generate_signing_keypair(ProfileSigningKey),
     tbk_path |-> <<>>, members |-> <<>>, created |-> Ok(<<>>),
     tamper |-> [at |-> 0, by |-> 0], malformed |-> "no",
     fs0 |-> <<>>, call |-> NoCall, res |-> Ok(<<>>)]

SnapInit ==
    \E sc \in Scenarios :
        /\ fs = MakeFs(sc.tree, sc.layout)
        /\ snap = SnapStart(sc.kind)

\* create_snapshot(profile, password, signing_key_raw)
SnapCreate ==
    /\ snap.pc = "start"
    /\ snap.kind = "own"
    /\ \E pw \in Passwords :
          \E r \in {create_snapshot(fs, snap.profile, pw, snap.keypair[1], <<>>,
                                      SnapshotNonce, <<49>>, NoLimit)} :
              /\ fs' = r.fs
              /\ snap' = [snap EXCEPT !.pc = IF r.res.err = "none" THEN "packed" ELSE "failed",
                                      !.created = r.res,
                                      !.tbk_path = IF r.res.err = "none"
                                                   THEN r.res.val.tbk_path ELSE <<>>]
    /\ UNCHANGED <<cry, dl, heap, man>>

\* A container made elsewhere, of any archive, under the profile's DEK and
\* signing key, is put on the disk.
SnapReceive ==
    /\ snap.pc = "start"
    /\ snap.kind = "foreign"
    /\ \E members \in Archives :
          LET path == Append(TEMP, SnapFilename(<<50>>))
              packed == PackContainer(members, ProfileDek, SnapshotNonce, snap.keypair[1])
          IN  /\ fs' = WriteFile(fs, path, packed.val).fs
              /\ snap' = [snap EXCEPT !.pc = "packed", !.members = members,
                                      !.tbk_path = path]
    /\ UNCHANGED <<cry, dl, heap, man>>

\* restore_snapshot(tbk_path, profile, password, target_dir, public_key_raw, overwrite)
SnapRestore ==
    /\ snap.pc \in {"packed", "tampered"}
    /\ \E pw \in Passwords, overwrite \in BOOLEAN,
          pub \in {<<>>, snap.keypair[2], generate_signing_keypair(OtherSigningKey)[2]} :
          \E r \in {restore_snapshot(fs, snap.tbk_path, snap.profile, pw, TargetDir,
                                       pub, overwrite)} :
              /\ fs' = r.fs
              /\ snap' = [snap EXCEPT !.pc = "restored", !.fs0 = fs, !.res = r.res,
                                      !.call = [pw |-> pw, pub |-> pub,
                                                overwrite |-> overwrite]]
    /\ UNCHANGED <<cry, dl, heap, man>>

SnapNext == SnapCreate \/ SnapReceive \/ SnapRestore

Init == SnapInit /\ CryIdle /\ DlIdle /\ ManIdle

Spec == Init /\ [][SnapNext]_vars

\* the regular files under the target directory
TargetFiles(f) == {p \in DOMAIN f : IsStrictDescendant(p, TargetDir) /\ IsFile(f, p)}

\* the regular files under the source directory that the profile's pattern
\* does not exclude
SourceFiles(f) ==
    {p \in DOMAIN f : /\ IsStrictDescendant(p, SourceDir)
                      /\ IsFile(f, p)
                      /\ ~IsSubstring(ExcludePattern, RelativePosix(p, SourceDir))}

\* the call got the profile's password and no key or the signer's public key
RightKeys == snap.call.pw = ProfilePassword /\ snap.call.pub \in {<<>>, snap.keypair[2]}

\* C1: create_snapshot of a source tree, then restore_snapshot of the container
\* into an empty target directory with the same profile and password and the
\* matching public key, succeeds and leaves in the target exactly one file per
\* non-excluded source file, at the same relative path with the same content.
C1_CreateRestoreRoundTrip ==
    ( /\ snap.pc = "restored"
      /\ snap.kind = "own"
      /\ snap.call.pw = ProfilePassword
      /\ snap.call.pub = snap.keypair[2] )
    => /\ snap.res.err = "none"
       /\ {RelativePosix(p, TargetDir) : p \in TargetFiles(fs)}
             = {RelativePosix(p, SourceDir) : p \in SourceFiles(snap.fs0)}
       /\ \A p \in SourceFiles(snap.fs0) :
             fs[TargetDir \o SubSeq(p, Len(SourceDir) + 1, Len(p))].content
                = snap.fs0[p].content

\* C2: restore_snapshot never creates or overwrites a file whose resolved path
\* is not a strict descendant of the resolved target directory, whatever the
\* names of the archive's members.
C2_RestoreStaysInTarget ==
    snap.pc = "restored" =>
        \A p \in DOMAIN fs :
            (IsFile(fs, p) /\ (p \notin DOMAIN snap.fs0 \/ snap.fs0[p] # fs[p]))
            => IsStrictDescendant(p, ResolveParts(<<>>, TargetDir))

\* member i of the archive has the relative path of a regular file that the
\* target directory held before the call
HitsFile(i) ==
    LET p == JoinResolve(TargetDir, snap.members[i].name)
    IN  IsStrictDescendant(p, TargetDir) /\ IsFile(snap.fs0, p)

\* the last regular-file member at the path of member i
LastFileAt(i) ==
    LET same == {j \in DOMAIN snap.members :
                    /\ snap.members[j].type = "file"
                    /\ JoinResolve(TargetDir, snap.members[j].name)
                          = JoinResolve(TargetDir, snap.members[i].name)}
    IN  snap.members[CHOOSE j \in same : \A k \in same : k <= j]

PackedMembers ==
    Untar(ReadContainer(fs[snap.tbk_path].content, ProfileDek, <<>>).val, <<>>).val

\* the size in the source directory of the file a member was packed from
SourceSize(member) == Len(fs[SourceDir \o PartsOf(member.name)].content)

\* C18: on success create_snapshot returns metadata whose file_count is the
\* number of members packed for the scanned files (every member behind the
\* metadata member) and whose total_size is the sum of those files' sizes.
C18_MetaCounts ==
    (snap.pc = "packed" /\ snap.kind = "own") =>
        /\ snap.created.val.meta.file_count = Len(PackedMembers) - 1
        /\ snap.created.val.meta.total_size
              = SumSeq([i \in 1..(Len(PackedMembers) - 1) |-> SourceSize(PackedMembers[i + 1])])

\* a snapshot of two files or more, of 3 bytes or more together, was created
C18_Witness ==
    /\ snap.pc = "packed"
    /\ snap.kind = "own"
    /\ snap.created.val.meta.file_count >= 2
    /\ snap.created.val.meta.total_size >= 3

\* member m's resolved path is not below the target directory
Escapes(m) == ~IsStrictDescendant(JoinResolve(TargetDir, m.name), TargetDir)

\* C24: a member whose resolved path escapes the target directory is skipped
\* without raising: restore_snapshot ends, and leaves the file system, as it
\* does for the archive without its escaping members.
C24_EscapingSkipped ==
    (snap.pc = "restored" /\ snap.kind = "foreign" /\ RightKeys) =>
        \E r \in {RestorePayload(snap.fs0,
                                 Ok(TarGzip(SelectSeq(snap.members, LAMBDA m : ~Escapes(m)))),
                                 TargetDir, snap.call.overwrite)} :
            /\ snap.res = r.res
            /\ fs = r.fs

\* C28: with overwrite=false, restore_snapshot leaves every file that the
\* target directory held before the call as it was, whether it returns or
\* aborts part-way, for any archive.
C28_ExistingFilesKept ==
    (snap.pc = "restored" /\ ~snap.call.overwrite) =>
        \A p \in TargetFiles(snap.fs0) : p \in DOMAIN fs /\ fs[p] = snap.fs0[p]

\* a restore without overwrite wrote a new file and then aborted at a member
\* whose path the target already held
C28_Witness ==
    /\ snap.pc = "restored"
    /\ ~snap.call.overwrite
    /\ snap.res.msg = "already exists. Use overwrite=True."
    /\ TargetFiles(snap.fs0) # {}
    /\ TargetFiles(fs) # TargetFiles(snap.fs0)
    /\ \E i \in DOMAIN snap.members : HitsFile(i)

\* ----------------------------------------------------- the tamper scenario

\* Source trees of the tamper scenario: of the files "a" and "d/b"
TamperTrees == {t \in SourceTrees : \A g \in t : g.rel \in {<<97>>, <<100, 47, 98>>}}

\* what is added (mod 256) to the byte that is changed
ByteChanges == {1, 128, 255}

\* the offset of the ciphertext region in a container: behind MAGIC, nonce,
\* signature length and signature
CiphertextOffset(data) ==
    Len(MAGIC_BYTES) + NONCE_LEN + 2
        + FromBytes2(SubSeq(data, Len(MAGIC_BYTES) + NONCE_LEN + 1,
                            Len(MAGIC_BYTES) + NONCE_LEN + 2))

TamperInit ==
    \E t \in TamperTrees :
        /\ fs = MakeFs(t, EmptyTarget)
        /\ snap = SnapStart("own")

\* one byte of the container's ciphertext region is changed on the disk
SnapTamper ==
    /\ snap.pc = "packed"
    /\ LET data == fs[snap.tbk_path].content
       IN  \E i \in (CiphertextOffset(data) + 1)..Len(data), d \in ByteChanges :
              /\ fs' = WriteFile(fs, snap.tbk_path,
                                 [data EXCEPT ![i] = (data[i] + d) % 256]).fs
              /\ snap' = [snap EXCEPT !.pc = "tampered", !.tamper = [at |-> i, by |-> d]]
    /\ UNCHANGED <<cry, dl, heap, man>>

TamperNext == SnapCreate \/ SnapTamper \/ SnapRestore

InitTamper == TamperInit /\ CryIdle /\ DlIdle /\ ManIdle

SpecTamper == InitTamper /\ [][TamperNext]_vars

\* C3: once one byte of a valid container's ciphertext region is changed,
\* restore_snapshot fails, with a signature error when a public key is supplied
\* and with a DecryptionError when none is, and writes nothing.
C3_TamperDetected ==
    (snap.pc = "restored" /\ snap.tamper.at # 0) =>
        /\ fs = snap.fs0
        /\ IF snap.call.pw # ProfilePassword
           THEN snap.res.err = "DecryptionError"
           ELSE IF snap.call.pub # <<>>
           THEN /\ snap.res.err = "RestoreExtractionError"
                /\ snap.res.msg = "Signature verification failed."
           ELSE /\ snap.res.err = "DecryptionError"
                /\ snap.res.msg = "Failed to decrypt snapshot"

\* a container with a byte of the encrypted archive (not of the tag) changed
\* was restored with the profile's password and without a public key
C3_Witness ==
    /\ snap.pc = "restored"
    /\ snap.tamper.at # 0
    /\ snap.tamper.at <= Len(snap.fs0[snap.tbk_path].content) - TAG_LEN
    /\ snap.call.pw = ProfilePassword
    /\ snap.call.pub = <<>>
    /\ snap.res.err = "DecryptionError"

\* ------------------------------------------- the malformed-container scenario

\* the container's first n bytes: the file truncated at length n
Truncated(data, n) == Take(data, n)

\* The container on the disk is made malformed: one byte of its magic is
\* changed, or the file is truncated at any length below its own.
SnapMalform ==
    /\ snap.pc = "packed"
    /\ \E data \in {fs[snap.tbk_path].content} :
          \/ \E i \in 1..Len(MAGIC_BYTES), d \in ByteChanges :
                /\ fs' = WriteFile(fs, snap.tbk_path,
                                   [data EXCEPT ![i] = (data[i] + d) % 256]).fs
                /\ snap' = [snap EXCEPT !.pc = "tampered", !.malformed = "magic",
                                        !.tamper = [at |-> i, by |-> d]]
          \/ \E n \in 0..(Len(data) - 1) :
                /\ fs' = WriteFile(fs, snap.tbk_path, Truncated(data, n)).fs
                /\ snap' = [snap EXCEPT !.pc = "tampered", !.malformed = "cut",
                                        !.tamper = [at |-> n, by |-> 0]]
    /\ UNCHANGED <<cry, dl, heap, man>>

MalformNext == SnapCreate \/ SnapMalform \/ SnapRestore

SpecMalformed == InitTamper /\ [][MalformNext]_vars

\* C17: unpacking a container whose magic differs or that is truncated at any
\* point fails with RestoreExtractionError, with or without a verification
\* public key (the DEK being the right one).
C17_MalformedRejected ==
    (snap.pc = "restored" /\ snap.malformed # "no" /\ snap.call.pw = ProfilePassword) =>
        snap.res.err = "RestoreExtractionError"

\* --------------------------------------------------------- the scan scenario

\* the files of the scanned trees: a, b.c, d/b, d/e.f, g.h/k
ScanCandidates ==
    { [rel |-> <<97>>, content |-> <<65>>, ino |-> 0],
      [rel |-> <<98, 46, 99>>, content |-> <<66>>, ino |-> 0],
      [rel |-> <<100, 47, 98>>, content |-> <<67>>, ino |-> 0],
      [rel |-> <<100, 47, 101, 46, 102>>, content |-> <<68>>, ino |-> 0],
      [rel |-> <<103, 46, 104, 47, 107>>, content |-> <<69>>, ino |-> 0] }
ScanTrees == SUBSET ScanCandidates

\* the exclude patterns: "", ".", "a", "b", "d", "d/", "/b", ".h", "z"
ScanPatterns ==
    {<<>>, DOT, <<97>>, <<98>>, <<100>>, <<100, 47>>, <<47, 98>>, <<46, 104>>, <<122>>}
MaxPatterns == 2
ScanPatternLists == SeqsUpTo(ScanPatterns, MaxPatterns)

ScanInit ==
    \E t \in ScanTrees :
        /\ fs = MakeFs(t, EmptyTarget)
        /\ snap = [pc |-> "start", exclude_patterns |-> <<>>, fingerprints |-> <<>>]

\* scan_directory(source_dir, exclude_patterns)
ScanRun ==
    /\ snap.pc = "start"
    /\ \E patterns \in ScanPatternLists :
          snap' = [pc |-> "scanned", exclude_patterns |-> patterns,
                   fingerprints |-> scan_directory(fs, SourceDir, patterns)]
    /\ UNCHANGED <<cry, dl, heap, man, fs>>

InitScan == ScanInit /\ CryIdle /\ DlIdle /\ ManIdle

SpecScan == InitScan /\ [][ScanRun]_vars

\* the relative paths of the regular files under the source directory, and of
\* the fingerprints returned
ScanSourceRels ==
    {RelativePosix(p, SourceDir) :
        p \in {q \in DOMAIN fs : IsStrictDescendant(q, SourceDir) /\ IsFile(fs, q)}}
ScannedRels == {snap.fingerprints[i].relative_path : i \in DOMAIN snap.fingerprints}
ExcludedBy(rel) ==
    \E i \in DOMAIN snap.exclude_patterns : IsSubstring(snap.exclude_patterns[i], rel)

\* C19: scan_directory returns no fingerprint whose relative path contains an
\* exclude pattern as a substring, and leaves a regular file of the source
\* directory out only if some exclude pattern is a substring of its relative path.
C19_ExcludedIffSubstring ==
    snap.pc = "scanned" =>
        /\ \A rel \in ScannedRels : ~ExcludedBy(rel)
        /\ \A rel \in ScanSourceRels \ ScannedRels : ExcludedBy(rel)

\* ------------------------------------------------ the unpacking, step by step

\* the if of _read_snapshot_payload before the try block: no public key, or
\* the signature verifies over the encrypted payload
SignatureAccepted_Always(encrypted_payload, signature, public_key_raw) == TRUE
SignatureAccepted(encrypted_payload, signature, public_key_raw) ==
    public_key_raw = <<>> \/ verify(encrypted_payload, signature, public_key_raw)

\* the archives of the containers that are unpacked, the keys they are signed
\* with, and the DEKs they are unpacked with
UnpackArchives == {<<>>, <<TarMember(<<97>>, "file", NewContent)>>}
UnpackSigners == {ProfileSigningKey, OtherSigningKey}
UnpackDeks == {ProfileDek, [j \in 1..KEY_LEN |-> 201]}
UnpackPath == Append(TEMP, SnapFilename(<<50>>))

\* the unpacking before its first step: aead counts the runs of AESGCM.decrypt
UnpackStart ==
    [pc |-> "packed", tamper |-> [at |-> 0, by |-> 0], dek |-> <<>>, pub |-> <<>>,
     nonce |-> <<>>, signature |-> <<>>, encrypted_payload |-> <<>>,
     aead |-> 0, res |-> Ok(<<>>)]

UnpackInit ==
    \E members \in UnpackArchives, key \in UnpackSigners :
        /\ fs = WriteFile(MakeFs({}, EmptyTarget), UnpackPath,
                          PackContainer(members, ProfileDek, SnapshotNonce, key).val).fs
        /\ snap = UnpackStart

\* one byte of the container is changed on the disk, anywhere in the file
UnpackTamper ==
    /\ snap.pc = "packed"
    /\ snap.tamper.at = 0
    /\ \E data \in {fs[UnpackPath].content} :
          \E i \in DOMAIN data, d \in ByteChanges :
              /\ fs' = WriteFile(fs, UnpackPath, [data EXCEPT ![i] = (data[i] + d) % 256]).fs
              /\ snap' = [snap EXCEPT !.tamper = [at |-> i, by |-> d]]
    /\ UNCHANGED <<cry, dl, heap, man>>

\* _read_snapshot_payload(tbk_path, dek, public_key_raw), the with block: magic,
\* nonce, signature length, signature and encrypted payload are read
UnpackRead ==
    /\ snap.pc = "packed"
    /\ \E dek \in UnpackDeks,
          pub \in {<<>>, generate_signing_keypair(ProfileSigningKey)[2]},
          data \in {fs[UnpackPath].content} :
          snap' = IF Take(data, Len(MAGIC_BYTES)) # MAGIC_BYTES
                  THEN [snap EXCEPT !.pc = "done", !.dek = dek, !.pub = pub,
                           !.res = Raise("RestoreExtractionError",
                                         "Invalid magic bytes. Not a valid tbk file.")]
                  ELSE IF Len(Take(Drop(data, Len(MAGIC_BYTES) + NONCE_LEN), 2)) < 2
                  THEN [snap EXCEPT !.pc = "done", !.dek = dek, !.pub = pub,
                           !.res = Raise("RestoreExtractionError", "File too short.")]
                  ELSE [snap EXCEPT
                           !.pc = "read", !.dek = dek, !.pub = pub,
                           !.nonce = Take(Drop(data, Len(MAGIC_BYTES)), NONCE_LEN),
                           !.signature = Take(Drop(data, Len(MAGIC_BYTES) + NONCE_LEN + 2),
                                              FromBytes2(Take(Drop(data, Len(MAGIC_BYTES) + NONCE_LEN), 2))),
                           !.encrypted_payload = Drop(data, CiphertextOffset(data))]
    /\ UNCHANGED <<cry, dl, heap, man, fs>>

\* the signature check before the try block
UnpackVerify ==
    /\ snap.pc = "read"
    /\ snap' = IF SignatureAccepted(snap.encrypted_payload, snap.signature, snap.pub)
               THEN [snap EXCEPT !.pc = "verified"]
               ELSE [snap EXCEPT !.pc = "done",
                        !.res = Raise("RestoreExtractionError", "Signature verification failed.")]
    /\ UNCHANGED <<cry, dl, heap, man, fs>>

\* the try block: AESGCM(dek).decrypt runs
UnpackDecrypt ==
    /\ snap.pc = "verified"
    /\ snap' = [snap EXCEPT !.pc = "done", !.aead = snap.aead + 1,
                            !.res = DecryptPayload(snap.dek, snap.nonce, snap.encrypted_payload)]
    /\ UNCHANGED <<cry, dl, heap, man, fs>>

UnpackNext == UnpackTamper \/ UnpackRead \/ UnpackVerify \/ UnpackDecrypt

InitUnpack == UnpackInit /\ CryIdle /\ DlIdle /\ ManIdle

SpecUnpack == InitUnpack /\ [][UnpackNext]_vars

\* the container was read, a public key was supplied and the signature read
\* does not verify over the encrypted payload read
UnpackBadSignature ==
    /\ snap.pc \in {"read", "verified", "done"}
    /\ snap.res.msg \notin {"Invalid magic bytes. Not a valid tbk file.", "File too short."}
    /\ snap.pub # <<>>
    /\ ~verify(snap.encrypted_payload, snap.signature, snap.pub)

\* C21: with a public key supplied, a container whose signature does not
\* verify over its ciphertext is rejected with RestoreExtractionError, and
\* AESGCM.decrypt is never run on it; the steps give what
\* _read_snapshot_payload gives as a whole.
C21_VerifyBeforeDecrypt ==
    /\ UnpackBadSignature =>
          /\ snap.aead = 0
          /\ snap.pc # "verified"
          /\ snap.pc = "done" => snap.res.err = "RestoreExtractionError"
    /\ snap.pc = "done" =>
          snap.res = read_snapshot_payload(fs, UnpackPath, snap.dek, snap.pub)

\* a container with a changed ciphertext byte, or signed with another key than
\* the public key's, was rejected without a run of AESGCM.decrypt
C21_Witness ==
    /\ UnpackBadSignature
    /\ snap.pc = "done"
    /\ snap.tamper.at > CiphertextOffset(fs[UnpackPath].content)
    /\ snap.dek = ProfileDek
    /\ snap.aead = 0
    /\ snap.res.msg = "Signature verification failed."

\* ------------------------------------------------- the scan's worker pool

\* fingerprints.sort(key=lambda x: x.relative_path): a stable sort, here by
\* insertion of each element behind the elements that are not greater
RECURSIVE InsertByPath(_, _)
InsertByPath(sorted, e) ==
    IF sorted = <<>> THEN <<e>>
    ELSE IF StrLess(e.relative_path, sorted[1].relative_path) THEN <<e>> \o sorted
    ELSE <<sorted[1]>> \o InsertByPath(Tail(sorted), e)
RECURSIVE SortIntoByPath(_, _)
SortIntoByPath(done, rest) ==
    IF rest = <<>> THEN done ELSE SortIntoByPath(InsertByPath(done, rest[1]), Tail(rest))
SortedByRelativePath_AsGathered(list) == list
SortedByRelativePath(list) == SortIntoByPath(<<>>, list)

\* the files of the scanned trees (a, b.c, d/b, g.h/k), at most MaxScanned in one tree
MaxScanned == 3
PoolCandidates == {g \in ScanCandidates : g.rel # <<100, 47, 101, 46, 102>>}
PoolTrees == {t \in SUBSET PoolCandidates : Cardinality(t) <= MaxScanned}
PoolPatternLists == {<<>>, <<<<100>>>>}

\* what happens to a file during the scan: nothing ("ok"); the stat of
\* file_path.is_file() is refused, its directory not being searchable
\* ("denied"); the file vanishes or cannot be opened once its task runs
\* ("unreadable")
PoolConditions == {"ok", "denied", "unreadable"}

\* file_path.is_file() on a file whose stat is refused: pathlib lets the
\* PermissionError through where it ignores only the errnos of a missing
\* file, and answers False where it ignores every OSError
IsFileOutcomes == {"raises", "false"}

PoolInit ==
    \E t \in PoolTrees :
        \E cond \in [{g.rel : g \in t} -> PoolConditions] :
            /\ fs = MakeFs(t, EmptyTarget)
            /\ snap = [pc |-> "start", cond |-> cond, exclude_patterns |-> <<>>,
                       pending |-> {}, hashed |-> {}, fingerprints |-> <<>>,
                       res |-> Ok(<<>>)]

\* the files the walk tests with is_file whose stat is refused
PoolDenied(patterns) ==
    {p \in files_to_scan(fs, SourceDir, patterns) :
        snap.cond[RelativePosix(p, SourceDir)] = "denied"}

\* scan_directory up to executor.submit: the walk, and one task per file kept
PoolWalk ==
    /\ snap.pc = "start"
    /\ \E list \in PoolPatternLists, is_file \in IsFileOutcomes :
          \E patterns \in {{list[i] : i \in DOMAIN list}} :
              snap' = IF PoolDenied(patterns) # {} /\ is_file = "raises"
                      THEN [snap EXCEPT !.pc = "done", !.exclude_patterns = list,
                                        !.res = Raise("PermissionError", "file_path.is_file")]
                      ELSE [snap EXCEPT !.pc = "pool", !.exclude_patterns = list,
                                        !.pending = files_to_scan(fs, SourceDir, patterns)
                                                       \ PoolDenied(patterns)]
    /\ UNCHANGED <<cry, dl, heap, man, fs>>

\* one pass of the as_completed loop: a task has completed, in any order, and
\* its fingerprint is appended, or its exception is caught
PoolComplete ==
    /\ snap.pc = "pool"
    /\ \E p \in snap.pending :
          snap' = IF snap.cond[RelativePosix(p, SourceDir)] = "unreadable"
                  THEN [snap EXCEPT !.pending = snap.pending \ {p}]
                  ELSE [snap EXCEPT !.pending = snap.pending \ {p},
                                    !.hashed = snap.hashed \cup {p},
                                    !.fingerprints = Append(snap.fingerprints,
                                                            scan_file(fs, p, SourceDir))]
    /\ UNCHANGED <<cry, dl, heap, man, fs>>

\* the sort and the return of scan_directory
PoolReturn ==
    /\ snap.pc = "pool"
    /\ snap.pending = {}
    /\ snap' = [snap EXCEPT !.pc = "done", !.res = Ok(SortedByRelativePath(snap.fingerprints))]
    /\ UNCHANGED <<cry, dl, heap, man, fs>>

PoolNext == PoolWalk \/ PoolComplete \/ PoolReturn

InitPool == PoolInit /\ CryIdle /\ DlIdle /\ ManIdle

SpecPool == InitPool /\ [][PoolNext]_vars

\* the regular files of the source directory that no pattern excludes and
\* that are in condition c
PoolFilesIn(c) ==
    {p \in files_to_scan(fs, SourceDir,
                         {snap.exclude_patterns[i] : i \in DOMAIN snap.exclude_patterns}) :
        snap.cond[RelativePosix(p, SourceDir)] = c}

\* C22: whatever order the tasks complete in, the list returned is the one
\* list that the directory content determines: in strictly increasing
\* relative_path order, with exactly one fingerprint per file hashed.
C22_OrderIndependent ==
    (snap.pc = "done" /\ snap.res.err = "none") =>
        /\ \A i \in 1..(Len(snap.res.val) - 1) :
              StrLess(snap.res.val[i].relative_path, snap.res.val[i + 1].relative_path)
        /\ Len(snap.res.val) = Cardinality(snap.hashed)
        /\ \A p \in snap.hashed :
              \E i \in DOMAIN snap.res.val : snap.res.val[i] = scan_file(fs, p, SourceDir)
        /\ snap.res.val
              = SortedFingerprints(fs, SourceDir,
                                   SortedStrs({RelativePosix(p, SourceDir) : p \in snap.hashed}))

\* three tasks completed in another order than that of their paths
C22_Witness ==
    /\ snap.pc = "done"
    /\ snap.res.err = "none"
    /\ Len(snap.res.val) = 3
    /\ snap.fingerprints # snap.res.val

\* C23: when the stat or the hashing of some files fails, scan_directory does
\* not raise and returns the fingerprints of exactly the files read.
C23_FailuresDropped ==
    snap.pc = "done" =>
        /\ snap.res.err = "none"
        /\ PathsOf(snap.res.val) = {RelativePosix(p, SourceDir) : p \in PoolFilesIn("ok")}

\* ------------------------------------------------- the failing-pack scenario

\* what the temp build directory of the snapshot id holds before the call:
\* it is absent, or an earlier call with the same id has left it empty, or
\* with its container in it
BuildStates == {"absent", "empty", "container"}
PackSnapId == <<49>>
PackTbkPath == Append(BuildDir(PackSnapId), SnapFilename(PackSnapId))
WithBuildDir(f, state) ==
    IF state = "absent" THEN f
    ELSE IF state = "empty" THEN MkdirParents(f, BuildDir(PackSnapId)).fs
    ELSE WriteFile(MkdirParents(f, BuildDir(PackSnapId)).fs, PackTbkPath, OldContent).fs

\* the signing keys given to the call: the profile's, and one of 16 bytes,
\* with which sign raises
PackSigningKeys == {ProfileSigningKey, Take(ProfileSigningKey, 16)}

\* the room of the disk: none, or enough for a part of the magic, of the
\* signature, of the ciphertext, or for every container
PackRooms == {NoLimit} \cup {RoomOf(n) : n \in {0, 3, 40, 90, 250}}

PackInit ==
    \E t \in TamperTrees, state \in BuildStates :
        /\ fs = WithBuildDir(MakeFs(t, EmptyTarget), state)
        /\ snap = [pc |-> "start", build |-> state, key |-> <<>>, room |-> NoLimit,
                   res |-> Ok(<<>>)]

\* create_snapshot(profile, password, signing_key_raw)
PackCreate ==
    /\ snap.pc = "start"
    /\ \E key \in PackSigningKeys, room \in PackRooms :
          \E r \in {create_snapshot(fs, FixtureProfile, ProfilePassword, key, <<>>,
                                      SnapshotNonce, PackSnapId, room)} :
              /\ fs' = r.fs
              /\ snap' = [snap EXCEPT !.pc = "created", !.key = key, !.room = room,
                                      !.res = r.res]
    /\ UNCHANGED <<cry, dl, heap, man>>

InitPack == PackInit /\ CryIdle /\ DlIdle /\ ManIdle

SpecPack == InitPack /\ [][PackCreate]_vars

\* C25: when packing fails inside create_snapshot, the call raises
\* SnapshotCreationError, and neither the container file nor the temp build
\* directory of the snapshot exists when it does.
C25_FailedPackCleansUp ==
    (snap.pc = "created" /\ snap.res.err # "none") =>
        /\ snap.res.err = "SnapshotCreationError"
        /\ ~Exists(fs, PackTbkPath)
        /\ ~Exists(fs, BuildDir(PackSnapId))

\* the disk was full before the ciphertext was written, into a build
\* directory that held a container: file and directory are gone
C25_Witness ==
    /\ snap.pc = "created"
    /\ snap.build = "container"
    /\ snap.key = ProfileSigningKey
    /\ snap.room = RoomOf(90)
    /\ snap.res.err = "SnapshotCreationError"
    /\ ~Exists(fs, BuildDir(PackSnapId))

\* ------------------------------------------- the early failures' scenario

\* the target directory before the call: missing, empty, or holding the file a
EarlyLayouts == {l \in TargetLayouts : l.dirs = {} /\ l.files \subseteq {<<97>>}}

\* a container of the file a, made under the profile's DEK and signing key,
\* is on the disk
EarlyInit ==
    \E l \in EarlyLayouts, members \in {<<TarMember(<<97>>, "file", NewContent)>>} :
        /\ fs = WriteFile(MakeFs({}, l), UnpackPath,
                          PackContainer(members, ProfileDek, SnapshotNonce,
                                        ProfileSigningKey).val).fs
        /\ snap = [SnapStart("foreign") EXCEPT !.pc = "packed", !.members = members,
                                               !.tbk_path = UnpackPath]

EarlyNext == SnapMalform \/ SnapTamper \/ SnapRestore

InitEarly == EarlyInit /\ CryIdle /\ DlIdle /\ ManIdle

SpecEarly == InitEarly /\ [][EarlyNext]_vars

\* restore_snapshot failed before the archive was opened: unwrapping the DEK,
\* checking the magic, reading the signature length, verifying the signature
\* or decrypting the payload
EarlyFailure ==
    \/ snap.res.err = "DecryptionError"
    \/ /\ snap.res.err = "RestoreExtractionError"
       /\ snap.res.msg \in {"Invalid magic bytes. Not a valid tbk file.", "File too short.",
                            "Signature verification failed."}

\* C29: when restore_snapshot fails before the archive is opened, the target
\* directory is untouched: not created if it was missing, and nothing in it
\* created or modified.
C29_EarlyFailureTouchesNothing ==
    (snap.pc = "restored" /\ EarlyFailure) =>
        /\ fs = snap.fs0
        /\ Exists(fs, TargetDir) <=> Exists(snap.fs0, TargetDir)

\* the decryption of a container with a changed ciphertext byte failed, the
\* target directory being missing before and after
C29_Witness ==
    /\ snap.pc = "restored"
    /\ snap.malformed = "no"
    /\ snap.tamper.at > 0
    /\ snap.call.pw = ProfilePassword
    /\ snap.call.pub = <<>>
    /\ snap.res.err = "DecryptionError"
    /\ ~Exists(fs, TargetDir)

\* ------------------------------------------------------------------ cli.py

\* Profile(**kwargs) of pydantic: the declared fields are kept, any other
\* keyword is ignored (models.py declares no signing fields)
ProfileFields ==
    {"source_dir", "exclude_patterns", "master_key_enc", "master_key_salt",
     "recovery_key_enc", "recovery_key_salt"}
ProfileModel(kwargs) == [k \in DOMAIN kwargs \cap ProfileFields |-> kwargs[k]]

init_RecoveryWrapsFreshKey(source, password, master_dek, pwd_salt, phrase, rec_salt, keypair, nonces) ==
    ProfileModel(
        [source_dir |-> source, exclude_patterns |-> <<>>,
         master_key_enc |->
             b64encode(encrypt(master_dek, derive_key(password, pwd_salt).val, nonces[1]).val),
         master_key_salt |-> b64encode(pwd_salt),
         recovery_key_enc |->
             b64encode(encrypt(FlipAt(master_dek, 1, 0),
                               derive_recovery_key(phrase, rec_salt).val, nonces[2]).val),
         recovery_key_salt |-> b64encode(rec_salt),
         signing_public_key |-> b64encode(keypair[2]),
         signing_private_key_enc |-> b64encode(encrypt(keypair[1], master_dek, nonces[3]).val)])

\* init, steps 2 and 3, with the values the call draws (the DEK, the two salts,
\* the phrase, the signing keypair and the nonces of the three encrypt calls):
\* the profile that is saved
init(source, password, master_dek, pwd_salt, phrase, rec_salt, keypair, nonces) ==
    ProfileModel(
        [source_dir |-> source, exclude_patterns |-> <<>>,
         master_key_enc |->
             b64encode(encrypt(master_dek, derive_key(password, pwd_salt).val, nonces[1]).val),
         master_key_salt |-> b64encode(pwd_salt),
         recovery_key_enc |->
             b64encode(encrypt(master_dek, derive_recovery_key(phrase, rec_salt).val,
                               nonces[2]).val),
         recovery_key_salt |-> b64encode(rec_salt),
         signing_public_key |-> b64encode(keypair[2]),
         signing_private_key_enc |-> b64encode(encrypt(keypair[1], master_dek, nonces[3]).val)])

\* ------------------------------------------------- the key hierarchy's scenario

Phrases == {generate_recovery_phrase(e) :
               e \in {[j \in 1..KEY_LEN |-> j], [j \in 1..KEY_LEN |-> (3 * j) % 256]}}

\* the nonces of the three encrypt calls of init, the first one drawn
InitNonces(n) == <<n, [j \in 1..NONCE_LEN |-> 2], [j \in 1..NONCE_LEN |-> 3]>>

\* A stored str after damage: one character replaced by another character of
\* the alphabet, by a character outside it or by the pad character, or the str
\* cut short.
DamageChars == {66, 33, B64_PAD}
DamagePositions(text) == {1, Len(text) \div 2, Len(text) - 1, Len(text)}
Damaged(text) ==
    ({[text EXCEPT ![i] = c] : i \in DamagePositions(text), c \in DamageChars}
        \cup {Take(text, n) : n \in {0, 8, Len(text) - 1}}) \ {text}

KeysInit ==
    cry = [pc |-> "start", profile |-> <<>>, password |-> <<>>, phrase |-> <<>>,
           master_dek |-> <<>>, keypair |-> <<>>, damaged |-> "", tried |-> <<>>,
           out |-> Ok(<<>>)]

\* init: the token is validated, and the profile is made and saved
KeysCreate ==
    /\ cry.pc = "start"
    /\ \/ cry' = [cry EXCEPT !.pc = "exit"]
       \/ \E password \in Passwords, master_dek \in Deks, pwd_salt \in Salts,
             rec_salt \in Salts, phrase \in Phrases, seed \in SigningKeys, n \in Nonces :
             cry' = [cry EXCEPT
                        !.pc = "saved",
                        !.profile = init(SourceDir, password, master_dek, pwd_salt, phrase,
                                         rec_salt, generate_signing_keypair(seed),
                                         InitNonces(n)),
                        !.password = password, !.phrase = phrase,
                        !.master_dek = master_dek,
                        !.keypair = generate_signing_keypair(seed)]
    /\ UNCHANGED <<dl, heap, man, fs, snap>>

\* the stored wrapped DEK or the stored salt is damaged
KeysDamage ==
    /\ cry.pc = "saved"
    /\ \/ \E text \in Damaged(cry.profile.master_key_enc) :
             cry' = [cry EXCEPT !.pc = "damaged", !.damaged = "master_key_enc",
                                !.profile = [cry.profile EXCEPT !.master_key_enc = text]]
       \/ \E text \in Damaged(cry.profile.master_key_salt) :
             cry' = [cry EXCEPT !.pc = "damaged", !.damaged = "master_key_salt",
                                !.profile = [cry.profile EXCEPT !.master_key_salt = text]]
    /\ UNCHANGED <<dl, heap, man, fs, snap>>

\* get_master_dek(profile, password) with the password the user types
KeysUnlock ==
    /\ cry.pc \in {"saved", "damaged"}
    /\ \E pw \in Passwords :
          cry' = [cry EXCEPT !.pc = "unlocked", !.tried = pw,
                             !.out = get_master_dek(cry.profile, pw)]
    /\ UNCHANGED <<dl, heap, man, fs, snap>>

KeysNext == KeysCreate \/ KeysDamage \/ KeysUnlock

InitKeys == KeysInit /\ DlIdle /\ ManIdle /\ SnapIdle

SpecKeys == InitKeys /\ [][KeysNext]_vars

\* the DEK the recovery phrase unwraps from a profile
RecoveryDek(profile, phrase) ==
    decrypt(b64decode(profile.recovery_key_enc).val,
            derive_recovery_key(phrase, b64decode(profile.recovery_key_salt).val).val)

\* C13: in every profile init makes, master_key_enc under the KEK of the password
\* and master_key_salt, and recovery_key_enc under the KEK of the recovery phrase
\* and recovery_key_salt, unwrap to the same 32-byte DEK.
C13_SameDek ==
    cry.pc = "saved" =>
        /\ get_master_dek(cry.profile, cry.password) = Ok(cry.master_dek)
        /\ RecoveryDek(cry.profile, cry.phrase) = Ok(cry.master_dek)
        /\ Len(cry.master_dek) = 32

\* a profile whose two wrapped forms and whose two salts differ
C13_Witness ==
    /\ cry.pc = "saved"
    /\ cry.profile.master_key_enc # cry.profile.recovery_key_enc
    /\ cry.profile.master_key_salt # cry.profile.recovery_key_salt
    /\ RecoveryDek(cry.profile, cry.phrase) = Ok(cry.master_dek)

\* C14: get_master_dek fails with DecryptionError and the incorrect-password
\* message when the password is wrong and when the stored wrapped DEK or salt
\* is damaged; no other outcome tells the causes apart.
C14_SameFailure ==
    (cry.pc = "unlocked" /\ (cry.tried # cry.password \/ cry.damaged # "")) =>
        cry.out = Raise("DecryptionError", "Incorrect password for this profile.")

\* ------------------------------------------------------ the commands' scenario

\* Most runs of the snapshot flows (the snapshot command and the daemon's job).
MaxRuns == 2

\* create_snapshot(*args): Python binds the positional arguments before the
\* body runs and raises TypeError when signing_key_raw gets none
call_create_snapshot(f, args, nonce, snap_id) ==
    IF Len(args) < 3
    THEN [res |-> Raise("TypeError", "create_snapshot() missing 1 required positional argument: 'signing_key_raw'"),
          fs |-> f]
    ELSE create_snapshot(f, args[1], args[2], args[3], <<>>, nonce, snap_id, NoLimit)

\* The repository: the files under snapshots/ by name, and manifest.json.
EmptyRepo == [files |-> <<>>, manifest |-> None]
RepoFileNames(repo) == {repo.files[i].name : i \in DOMAIN repo.files}
RepoFile(repo, name) == (CHOOSE i \in DOMAIN repo.files : repo.files[i].name = name)
upload_file(repo, name, content) ==
    [repo EXCEPT !.files =
        IF name \in RepoFileNames(repo)
        THEN [@ EXCEPT ![RepoFile(repo, name)] = [name |-> name, content |-> content]]
        ELSE Append(@, [name |-> name, content |-> content])]

\* the snapshot flows behind create_snapshot: the container is uploaded, its
\* entry appended to the manifest, the manifest uploaded and the local file
\* removed; any exception ends the flow
UploadSnapshot(repo, made) ==
    IF made.res.err # "none" THEN [error |-> made.res, fs |-> made.fs, repo |-> repo]
    ELSE [error |-> Ok(<<>>),
          fs |-> Unlink(made.fs, made.res.val.tbk_path).fs,
          repo |-> [upload_file(repo, made.res.val.tbk_path[Len(made.res.val.tbk_path)],
                                made.fs[made.res.val.tbk_path].content)
                       EXCEPT !.manifest =
                           Some(SortedBySnapshotId(
                                    Append(repo.manifest.list,
                                           [snapshot_id |-> made.res.val.meta.snapshot_id,
                                            filename |-> made.res.val.tbk_path[
                                                             Len(made.res.val.tbk_path)]])))]]

\* the snapshot command
create_snapshot_cmd(f, repo, profile, password, nonce, snap_id) ==
    UploadSnapshot(repo, call_create_snapshot(f, <<profile, password>>, nonce, snap_id))

\* DaemonProcess.job, password being TERMBACKUP_PASSWORD (<<>>: not set)
job(f, repo, profile, password, nonce, snap_id) ==
    IF password = <<>>
    THEN [error |-> Raise("ValueError", "TERMBACKUP_PASSWORD environment variable not set."),
          fs |-> f, repo |-> repo]
    ELSE UploadSnapshot(repo, call_create_snapshot(f, <<profile, password>>, nonce, snap_id))

\* run_restore behind restore_snapshot: the downloaded file is removed when
\* the restore succeeded
RestoreDone(restored, temp_tbk) ==
    IF restored.res.err # "none" THEN [error |-> restored.res, fs |-> restored.fs]
    ELSE [error |-> Ok(<<>>), fs |-> Unlink(restored.fs, temp_tbk).fs]

\* run_restore behind the download: the container is written to the temp
\* directory and restore_snapshot called without a public key
RestoreDownloaded(f, temp_tbk, content, profile, password, target_dir, overwrite) ==
    RestoreDone(restore_snapshot(WriteFile(f, temp_tbk, content).fs, temp_tbk, profile,
                                 password, target_dir, <<>>, overwrite),
                temp_tbk)

\* run_restore behind the lookup of the manifest's entry
RestoreEntry(f, repo, entries, profile, password, target_dir, overwrite) ==
    IF entries = <<>>
    THEN [error |-> Raise("Exception", "Snapshot not found in manifest."), fs |-> f]
    ELSE IF entries[1].filename \notin RepoFileNames(repo)
    THEN [error |-> Raise("FileNotFoundError", "File not found"), fs |-> f]
    ELSE RestoreDownloaded(f, Append(TEMP, entries[1].filename),
                           repo.files[RepoFile(repo, entries[1].filename)].content,
                           profile, password, target_dir, overwrite)

\* the restore command
run_restore(f, repo, profile, snapshot_id, target, password, overwrite) ==
    IF repo.manifest.is_none
    THEN [error |-> Raise("Exception", "Manifest not found on GitHub. Cannot find snapshot."),
          fs |-> f]
    ELSE RestoreEntry(f, repo,
                      SelectSeq(repo.manifest.list, LAMBDA e : e.snapshot_id = snapshot_id),
                      profile, password, ResolveParts(<<>>, target), overwrite)

CliStart ==
    [pc |-> "start", profile |-> <<>>, password |-> <<>>, master_dek |-> <<>>,
     keypair |-> <<>>, repo |-> EmptyRepo, signed_by |-> <<>>, runs |-> 0,
     flow_files |-> {}, cmd |-> "", error |-> Ok(<<>>), fs0 |-> <<>>]

CliInit ==
    \E t \in TamperTrees :
        /\ fs = MakeFs(t, EmptyTarget)
        /\ snap = CliStart

\* the init command
CliInitCmd ==
    /\ snap.pc = "start"
    /\ \/ snap' = [snap EXCEPT !.pc = "exit", !.cmd = "init"]
       \/ \E password \in Passwords, seed \in SigningKeys :
             snap' = [snap EXCEPT
                         !.pc = "ready", !.cmd = "init",
                         !.profile = init(SourceDir, password, ProfileDek, ProfileSalt,
                                          generate_recovery_phrase([j \in 1..KEY_LEN |-> j]),
                                          [j \in 1..SALT_LEN |-> 9],
                                          generate_signing_keypair(seed),
                                          InitNonces(FixtureNonce)),
                         !.password = password, !.master_dek = ProfileDek,
                         !.keypair = generate_signing_keypair(seed)]
    /\ UNCHANGED <<cry, dl, heap, man, fs>>

\* the snapshot command
CliSnapshotCmd ==
    /\ snap.pc = "ready"
    /\ snap.runs < MaxRuns
    /\ \E password \in Passwords :
          \E r \in {create_snapshot_cmd(fs, snap.repo, snap.profile, password,
                                          SnapshotNonce, <<49 + snap.runs>>)} :
              /\ fs' = r.fs
              /\ snap' = [snap EXCEPT
                             !.cmd = "snapshot", !.error = r.error, !.repo = r.repo,
                             !.runs = @ + 1,
                             !.flow_files = @ \cup (RepoFileNames(r.repo)
                                                       \ RepoFileNames(snap.repo))]
    /\ UNCHANGED <<cry, dl, heap, man>>

\* the daemon's job
CliDaemonJob ==
    /\ snap.pc = "ready"
    /\ snap.runs < MaxRuns
    /\ \E password \in Passwords \cup {<<>>} :
          \E r \in {job(fs, snap.repo, snap.profile, password, SnapshotNonce,
                          <<49 + snap.runs>>)} :
              /\ fs' = r.fs
              /\ snap' = [snap EXCEPT
                             !.cmd = "daemon", !.error = r.error, !.repo = r.repo,
                             !.runs = @ + 1,
                             !.flow_files = @ \cup (RepoFileNames(r.repo)
                                                       \ RepoFileNames(snap.repo))]
    /\ UNCHANGED <<cry, dl, heap, man>>

\* A container of the source tree, made with the library's create_snapshot under
\* the profile's password and a signing key, the profile's or another, is in
\* the repository with its manifest entry.
CliRepoPut ==
    /\ snap.pc = "ready"
    /\ snap.repo.files = <<>>
    /\ \E key \in {snap.keypair[1], OtherSigningKey} :
          \E r \in {UploadSnapshot(snap.repo,
                                     call_create_snapshot(fs, <<snap.profile, snap.password, key>>,
                                                          SnapshotNonce, <<57>>))} :
              /\ fs' = r.fs
              /\ snap' = [snap EXCEPT !.repo = r.repo, !.signed_by = key, !.cmd = "put"]
    /\ UNCHANGED <<cry, dl, heap, man>>

\* the restore command
CliRestoreCmd ==
    /\ snap.pc = "ready"
    /\ \E password \in Passwords, overwrite \in BOOLEAN, snapshot_id \in {<<57>>, <<56>>} :
          \E r \in {run_restore(fs, snap.repo, snap.profile, snapshot_id, TargetDir,
                                  password, overwrite)} :
              /\ fs' = r.fs
              /\ snap' = [snap EXCEPT !.pc = "restored", !.cmd = "restore",
                                      !.error = r.error, !.fs0 = fs]
    /\ UNCHANGED <<cry, dl, heap, man>>

CliNext == CliInitCmd \/ CliSnapshotCmd \/ CliDaemonJob \/ CliRepoPut \/ CliRestoreCmd

InitCli == CliInit /\ CryIdle /\ DlIdle /\ ManIdle

SpecCli == InitCli /\ [][CliNext]_vars

\* the signature and the ciphertext of a container
ContainerSignature(data) ==
    SubSeq(data, Len(MAGIC_BYTES) + NONCE_LEN + 3, CiphertextOffset(data))
ContainerCiphertext(data) == Drop(data, CiphertextOffset(data))
SignedBy(data, public_key_raw) ==
    verify(ContainerCiphertext(data), ContainerSignature(data), public_key_raw)

\* C15: the keypair init generates is kept with the profile, the public key
\* and the private key wrapped under the DEK, and every snapshot a snapshot
\* flow uploads is signed with that private key.
C15_OneSigningIdentity ==
    snap.pc \in {"ready", "restored"} =>
        /\ {"signing_public_key", "signing_private_key_enc"} \subseteq DOMAIN snap.profile
        /\ b64decode(snap.profile.signing_public_key) = Ok(snap.keypair[2])
        /\ decrypt(b64decode(snap.profile.signing_private_key_enc).val, snap.master_dek)
              = Ok(snap.keypair[1])
        /\ \A name \in snap.flow_files :
              SignedBy(snap.repo.files[RepoFile(snap.repo, name)].content, snap.keypair[2])

\* C16: the restore command writes a file under the target directory only if
\* the container's signature over its ciphertext verifies against the public
\* key of the profile's signing keypair.
C16_RestoreVerifies ==
    (snap.pc = "restored" /\ TargetFiles(fs) # TargetFiles(snap.fs0)) =>
        \A i \in DOMAIN snap.repo.files : SignedBy(snap.repo.files[i].content, snap.keypair[2])

\* --------------------------------------------- the remote store, step by step

\* the two uploads of a snapshot flow, in the order the flow makes them: the
\* container, then the manifest with the container's entry appended
FlowOrder_ManifestFirst == <<"manifest", "container">>
FlowOrder == <<"container", "manifest">>

\* the version token of a stored file, as the contents API gives it: the blob
\* hash of its content (an ideal hash); NoSha: the payload carries no sha
BlobSha(content) == [sha |-> content]
NoSha == [sha |-> "none"]

\* the contents API's answer to PUT: a new file is created (201), a stored
\* file is replaced when the payload's sha is that of the stored content
\* (200), refused without a sha (422) and refused with another one (409)
PutStatus(stored, payload_sha) ==
    IF stored.is_none THEN 201
    ELSE IF payload_sha = NoSha THEN 422
    ELSE IF payload_sha = BlobSha(stored.list) THEN 200
    ELSE 409

\* the stored content of an item of the store, if any
StoredItem(repo, item, filename) ==
    IF item = "manifest"
    THEN repo.manifest
    ELSE IF filename \in RepoFileNames(repo)
    THEN Some(repo.files[RepoFile(repo, filename)].content)
    ELSE None

\* the store behind an accepted PUT of an item
StoreItem(repo, item, filename, content) ==
    IF item = "manifest" THEN [repo EXCEPT !.manifest = Some(content)]
    ELSE upload_file(repo, filename, content)

\* the flows, the snapshot ids their create_snapshot calls draw (two calls in
\* one second draw the same), and the container of an id
MaxFlows == 2
FlowIds == 1..MaxFlows
SyncSnapshotIds == {<<49>>, <<50>>}
SyncContainer(id, k) == MAGIC_BYTES \o id \o <<k>>
SyncEntry(id) == [snapshot_id |-> id, filename |-> SnapFilename(id)]

\* a flow behind create_snapshot: stage counts the uploads made
FlowStart(id, k) ==
    [pc |-> "created", snapshot_id |-> id, content |-> SyncContainer(id, k),
     manifest |-> <<>>, stage |-> 1, sha |-> NoSha, error |-> Ok(<<>>)]

\* the store before the flows: empty, or with the container and the manifest
\* of an earlier snapshot "0"
SyncRepos ==
    {EmptyRepo,
     [upload_file(EmptyRepo, SnapFilename(<<48>>), SyncContainer(<<48>>, 0))
         EXCEPT !.manifest = Some(<<SyncEntry(<<48>>)>>)]}

SyncInit ==
    \E ids \in [FlowIds -> SyncSnapshotIds], repo \in SyncRepos :
        /\ fs = <<>>
        /\ snap = [repo |-> repo, flows |-> [i \in FlowIds |-> FlowStart(ids[i], i)]]

\* what flow w uploads at its stage: the container, or the manifest it
\* downloaded with the entry of its snapshot appended
FlowItem(w) == FlowOrder[w.stage]
FlowContent(w) ==
    IF FlowItem(w) = "manifest"
    THEN SortedBySnapshotId(Append(w.manifest, SyncEntry(w.snapshot_id)))
    ELSE w.content

\* manifest = client.download_manifest(repo), or create_initial_manifest()
SyncDownload(i) ==
    /\ snap.flows[i].pc = "created"
    /\ snap' = [snap EXCEPT !.flows[i].pc = "get",
                            !.flows[i].manifest =
                                IF snap.repo.manifest.is_none THEN <<>>
                                ELSE snap.repo.manifest.list]
    /\ UNCHANGED <<cry, dl, heap, man, fs>>

\* upload_file, the GET: the sha of the stored file goes into the payload
SyncGetSha(i) ==
    /\ snap.flows[i].pc = "get"
    /\ \E stored \in {StoredItem(snap.repo, FlowItem(snap.flows[i]),
                                 SnapFilename(snap.flows[i].snapshot_id))} :
          snap' = [snap EXCEPT !.flows[i].pc = "put",
                               !.flows[i].sha = IF stored.is_none THEN NoSha
                                                ELSE BlobSha(stored.list)]
    /\ UNCHANGED <<cry, dl, heap, man, fs>>

\* upload_file, the PUT through _request: accepted (200, 201), or answered
\* with another status, or failed on the way, which raises and ends the flow
SyncPut(i) ==
    /\ snap.flows[i].pc = "put"
    /\ \E w \in {snap.flows[i]}, reached \in BOOLEAN :
          \E status \in {IF reached
                         THEN PutStatus(StoredItem(snap.repo, FlowItem(w),
                                                   SnapFilename(w.snapshot_id)), w.sha)
                         ELSE 503} :
              snap' = IF status \in {200, 201}
                      THEN [snap EXCEPT
                               !.repo = StoreItem(snap.repo, FlowItem(w),
                                                  SnapFilename(w.snapshot_id), FlowContent(w)),
                               !.flows[i].pc = IF w.stage = Len(FlowOrder) THEN "done" ELSE "get",
                               !.flows[i].stage = IF w.stage = Len(FlowOrder) THEN w.stage
                                                  ELSE w.stage + 1]
                      ELSE [snap EXCEPT !.flows[i].pc = "failed",
                                        !.flows[i].error = Raise("UploadError", "Failed to upload")]
    /\ UNCHANGED <<cry, dl, heap, man, fs>>

SyncNext == \E i \in FlowIds : SyncDownload(i) \/ SyncGetSha(i) \/ SyncPut(i)

InitSync == SyncInit /\ CryIdle /\ DlIdle /\ ManIdle

SpecSync == InitSync /\ [][SyncNext]_vars

\* the entries of the stored manifest
StoredEntries ==
    IF snap.repo.manifest.is_none THEN {}
    ELSE {snap.repo.manifest.list[k] : k \in DOMAIN snap.repo.manifest.list}

\* C26: in every state of the remote store, each entry of the stored manifest
\* names a container that is in the store.
C26_EntriesHaveContainers ==
    \A e \in StoredEntries : e.filename \in RepoFileNames(snap.repo)

\* both flows have uploaded their containers and the manifest holds an entry
C26_Witness ==
    /\ StoredEntries # {}
    /\ \A i \in FlowIds : snap.flows[i].pc = "done"
    /\ Len(snap.repo.files) = 3

retries == 3

\* what the server can answer: a status and whether the body speaks of a
\* rate limit
ResponseStatuses == {200, 201, 404, 409, 422, 401, 403, 500, 502, 503}

Responses == [status : ResponseStatuses, rate_limit_text : BOOLEAN]

\* the transport gives up within the client's timeout without a response
NoResponse == [status |-> 0, rate_limit_text |-> FALSE]

RequestMethods == {"GET", "PUT"}

\* one pass decides: "return", "raise" or "continue"
RequestPass_RetriesClientErrors(attempt, response) ==
    IF response = NoResponse THEN [then |-> "raise", res |-> Raise("TransportError", "")]
    ELSE IF response.status = 401
    THEN [then |-> "raise", res |-> Raise("AuthenticationError", "GitHub token is invalid or expired.")]
    ELSE IF response.status = 403 /\ response.rate_limit_text
    THEN [then |-> "raise", res |-> Raise("RateLimitError", "GitHub rate limit exceeded.")]
    ELSE IF response.status >= 400
    THEN IF attempt < retries - 1
         THEN [then |-> "continue", res |-> Ok(<<>>)]
         ELSE [then |-> "raise", res |-> Raise("UploadError", "GitHub API error")]
    ELSE [then |-> "return", res |-> Ok(response)]

RequestPass(attempt, response) ==
    IF response = NoResponse THEN [then |-> "raise", res |-> Raise("TransportError", "")]
    ELSE IF response.status = 401
    THEN [then |-> "raise", res |-> Raise("AuthenticationError", "GitHub token is invalid or expired.")]
    ELSE IF response.status = 403 /\ response.rate_limit_text
    THEN [then |-> "raise", res |-> Raise("RateLimitError", "GitHub rate limit exceeded.")]
    ELSE IF response.status >= 500
    THEN IF attempt < retries - 1
         THEN [then |-> "continue", res |-> Ok(<<>>)]
         ELSE [then |-> "raise", res |-> Raise("UploadError", "GitHub API error")]
    ELSE [then |-> "return", res |-> Ok(response)]

RequestInit ==
    /\ fs = <<>>
    /\ \E method \in RequestMethods :
        snap = [pc |-> "loop", method |-> method, attempt |-> 0, sent |-> 0,
                responses |-> <<>>, res |-> Ok(<<>>)]

\* one pass of the loop: the request is sent and its answer handled; past the
\* last pass the loop is left and the call raises
RequestSend ==
    /\ snap.pc = "loop"
    /\ IF snap.attempt >= retries
       THEN snap' = [snap EXCEPT !.pc = "done",
                                 !.res = Raise("UploadError", "Max retries exceeded.")]
       ELSE \E response \in Responses \cup {NoResponse} :
            \E pass \in {RequestPass(snap.attempt, response)} :
                snap' = [snap EXCEPT
                    !.sent = @ + 1,
                    !.responses = IF response = NoResponse THEN @ ELSE Append(@, response),
                    !.attempt = IF pass.then = "continue" THEN @ + 1 ELSE @,
                    !.pc = IF pass.then = "continue" THEN "loop" ELSE "done",
                    !.res = pass.res]
    /\ UNCHANGED <<cry, dl, heap, man, fs>>

RequestNext == RequestSend

InitRequest == RequestInit /\ CryIdle /\ DlIdle /\ ManIdle

\* every pass ends: the client's timeout bounds the request and the sleep
\* between passes is finite
SpecRequest == InitRequest /\ [][RequestNext]_vars /\ WF_vars(RequestNext)

\* the answer that ended the call
LastResponse == snap.responses[Len(snap.responses)]

\* what the call owes to the answer that ended it
RequestOutcomeRight ==
    IF snap.sent > Len(snap.responses) THEN snap.res.err = "TransportError"
    ELSE IF LastResponse.status = 401 THEN snap.res.err = "AuthenticationError"
    ELSE IF LastResponse.status = 403 /\ LastResponse.rate_limit_text
    THEN snap.res.err = "RateLimitError"
    ELSE IF LastResponse.status >= 500
    THEN snap.res.err = "UploadError" /\ snap.sent = retries
    ELSE snap.res = Ok(LastResponse)

\* at most three requests are sent, each one but the last was answered with a
\* status of 500 or more, and a finished call has the outcome of its last answer
RequestBounded ==
    /\ snap.sent <= retries
    /\ \A k \in 1..(snap.sent - 1) :
        k <= Len(snap.responses) /\ snap.responses[k].status >= 500
    /\ snap.pc = "loop" =>
        /\ snap.sent = Len(snap.responses)
        /\ snap.sent < retries
        /\ \A k \in 1..snap.sent : snap.responses[k].status >= 500
    /\ snap.pc = "done" => snap.sent >= 1 /\ RequestOutcomeRight

====
